---------------------------- MODULE Spec2Model ----------------------------
(***************************************************************************)
(* A model of the Pastry overlay of atedesch1/pastry: ring arithmetic,     *)
(* the routing table, the leaf set, and the node's RPC handlers (query,    *)
(* join, announce-arrival, transfer-keys, leaf repair).                    *)
(*                                                                         *)
(* Identifiers are 64-bit in the program (16 hex digits).  TLC's integers  *)
(* are 32-bit, so the model keeps the base-16 digits and scales the number *)
(* of digits down to U64_HEX_NUM_OF_DIGITS; u64::MAX becomes MaxId.  All   *)
(* wraparound arithmetic is done at that width.                            *)
(***************************************************************************)
EXTENDS Integers, Sequences, FiniteSets, TLC

\* src/src/util.rs:3
HEX_NUM_OF_BITS_PER_DIGIT == 4

\* The number of hex digits of an id (16 in the program; scaled down).
U64_HEX_NUM_OF_DIGITS == 3

HEX_BASE == 2 ^ HEX_NUM_OF_BITS_PER_DIGIT

\* u64::MAX at the model's width.
MaxId == (HEX_BASE ^ U64_HEX_NUM_OF_DIGITS) - 1

Id == 0 .. MaxId

None == -1

SetMin(S) == CHOOSE x \in S : \A y \in S : x <= y
SetMax(S) == CHOOSE x \in S : \A y \in S : x >= y
NatMin(a, b) == IF a < b THEN a ELSE b

\* The ascending sequence of the elements of a finite set of integers.
RECURSIVE SortedSeq(_)
SortedSeq(S) ==
    IF S = {} THEN << >>
    ELSE LET m == SetMin(S) IN << m >> \o SortedSeq(S \ {m})

SeqToSet(s) == { s[i] : i \in DOMAIN s }

(***************************************************************************)
(* util.rs                                                                 *)
(***************************************************************************)

\* The nth hexadecimal digit of num, digit 0 the most significant.
get_nth_digit_in_u64_hex(num, n) ==
    (num \div (HEX_BASE ^ (U64_HEX_NUM_OF_DIGITS - (n + 1)))) % HEX_BASE

DiffDigits(a, b) ==
    { i \in 0 .. (U64_HEX_NUM_OF_DIGITS - 1) :
        get_nth_digit_in_u64_hex(a, i) # get_nth_digit_in_u64_hex(b, i) }

\* The loop returns the first differing index; with no differing digit it
\* falls through to U64_HEX_NUM_OF_DIGITS - 1.
get_num_matched_digits(a, b) ==
    IF DiffDigits(a, b) # {} THEN SetMin(DiffDigits(a, b))
    ELSE U64_HEX_NUM_OF_DIGITS - 1

(***************************************************************************)
(* hring/ring.rs                                                           *)
(***************************************************************************)

counter_clockwise_distance(a, b) ==
    IF a > b THEN a - b ELSE (MaxId - b) + a

distance(a, b) ==
    NatMin(counter_clockwise_distance(a, b), counter_clockwise_distance(b, a))

\* is_in_range without the branch for a range that passes 0
is_in_range_nowrap(from, to, value) == from <= value /\ value < to

\* is_in_range for the range that leaves out from and takes in to
is_in_range_open_closed(from, to, value) ==
    \/ (from < to /\ (from < value /\ value <= to))
    \/ (from > to /\ (from < value \/ value <= to))

is_in_range(from, to, value) ==
    \/ (from < to /\ (from <= value /\ value < to))
    \/ (from > to /\ (from <= value \/ value < to))

\* the number of leading hex digits a and b have in common
SharedPrefix(a, b) ==
    IF DiffDigits(a, b) = {} THEN U64_HEX_NUM_OF_DIGITS
    ELSE SetMin(DiffDigits(a, b))

(***************************************************************************)
(* pastry/table.rs: the table is a growable list of rows of HEX_BASE       *)
(* cells, a cell holding an id or None.                                    *)
(***************************************************************************)

EmptyRow == [c \in 0 .. (HEX_BASE - 1) |-> None]

RoutingTable_new == << >>

RECURSIVE PushRows(_, _)
PushRows(t, n) == IF Len(t) < n THEN PushRows(Append(t, EmptyRow), n) ELSE t

\* insert without the "no differing digit" fall-through: the owner's id is
\* written into the last row.
RoutingTable_insert_self(id, t, key) ==
    LET i  == IF DiffDigits(id, key) = {} THEN U64_HEX_NUM_OF_DIGITS - 1
              ELSE SetMin(DiffDigits(id, key))
        t1 == PushRows(t, i + 1)
    IN  [t1 EXCEPT ![i + 1][get_nth_digit_in_u64_hex(key, i)] = key]

\* RoutingTable::insert: row = index of the first digit in which key differs
\* from the owner's id, column = that digit of key; rows are pushed up to it.
RoutingTable_insert(id, t, key) ==
    IF DiffDigits(id, key) = {} THEN t
    ELSE LET i  == SetMin(DiffDigits(id, key))
             t1 == PushRows(t, i + 1)
         IN  [t1 EXCEPT ![i + 1][get_nth_digit_in_u64_hex(key, i)] = key]

\* RoutingTable::remove: the loop stops at the first row that is not
\* materialized; at the first differing digit it clears the cell.
RoutingTable_remove(id, t, key) ==
    IF DiffDigits(id, key) = {} THEN t
    ELSE LET i == SetMin(DiffDigits(id, key))
         IN  IF i >= Len(t) THEN t
             ELSE [t EXCEPT ![i + 1][get_nth_digit_in_u64_hex(key, i)] = None]

\* RoutingTable::get_row
get_row(t, index) == IF index < Len(t) THEN t[index + 1] ELSE None

\* RoutingTable::get_entries: all occupied cells, row by row.
RECURSIVE RowEntriesFrom(_, _)
RowEntriesFrom(row, c) ==
    IF c >= HEX_BASE THEN << >>
    ELSE (IF row[c] # None THEN << row[c] >> ELSE << >>) \o RowEntriesFrom(row, c + 1)

RECURSIVE TableEntriesFrom(_, _)
TableEntriesFrom(t, r) ==
    IF r > Len(t) THEN << >>
    ELSE RowEntriesFrom(t[r], 0) \o TableEntriesFrom(t, r + 1)

RoutingTable_get_entries(t) == TableEntriesFrom(t, 1)

\* The entry of a row nearest to the owner's id, the first in column order
\* among equals (the loop replaces only on a strictly smaller distance).
RowClosest(id, row) ==
    LET occ == { c \in 0 .. (HEX_BASE - 1) : row[c] # None }
    IN  IF occ = {} THEN None
        ELSE LET best == CHOOSE c \in occ :
                            \A d \in occ :
                               \/ distance(row[c], id) < distance(row[d], id)
                               \/ (distance(row[c], id) = distance(row[d], id) /\ c <= d)
             IN  row[best]

\* the answer Ok(None) of route
NoRoute == [kind |-> "none", node |-> None, matched |-> 0]

\* RoutingTable::route.  Result: [kind |-> "none"], [kind |-> "some", node,
\* matched] or [kind |-> "panic"] (an empty table: table.len() - 1 underflows
\* in a debug build and the row index is out of bounds in a release build
\* whenever min_matched_digits <= matched digits).
RoutingTable_route(id, t, key, min_matched_digits) ==
    IF Len(t) = 0 THEN [kind |-> "panic", node |-> None, matched |-> 0]
    ELSE IF min_matched_digits > Len(t) - 1
         THEN [kind |-> "none", node |-> None, matched |-> 0]
    ELSE LET matched_digits == get_num_matched_digits(id, key)
             row_index      == NatMin(matched_digits, Len(t) - 1)
         IN  IF min_matched_digits > row_index
             THEN [kind |-> "none", node |-> None, matched |-> 0]
             ELSE LET row       == t[row_index + 1]
                      key_digit == get_nth_digit_in_u64_hex(key, row_index)
                      closest   == IF row[key_digit] # None THEN row[key_digit]
                                   ELSE RowClosest(id, row)
                  IN  IF closest = None
                      THEN [kind |-> "none", node |-> None, matched |-> 0]
                      ELSE [kind |-> "some", node |-> closest, matched |-> row_index]

\* route of the table the nodes of the overlay hold (built by
\* RoutingTable::new(id, info)): the row is the greater of the prefix shared
\* with key and min_matched_digits; no row there, no result; the cell of
\* key's digit if occupied, else the row entry nearest to the owner.
NatMax(a, b) == IF a > b THEN a ELSE b

Table_route(id, t, key, min_matched_digits) ==
    LET r == NatMax(SharedPrefix(id, key), min_matched_digits)
    IN  IF r >= Len(t) THEN [kind |-> "none", node |-> None, matched |-> 0]
        ELSE LET row       == t[r + 1]
                 key_digit == get_nth_digit_in_u64_hex(key, r)
                 closest   == IF row[key_digit] # None THEN row[key_digit]
                              ELSE RowClosest(id, row)
             IN  IF closest = None
                 THEN [kind |-> "none", node |-> None, matched |-> 0]
                 ELSE [kind |-> "some", node |-> closest, matched |-> r]

(***************************************************************************)
(* The leaf set of the node (internal::pastry::leaf::LeafSet).  Its source *)
(* is not among the files of src/; it is modelled from the description of  *)
(* the data structure: at most 2k+1 entries, the owner included; ascending *)
(* while not full; when full, rotated so that the owner is at the centre   *)
(* with k entries counter-clockwise before it and k clockwise after it.    *)
(***************************************************************************)

\* clockwise_distance(a, b) = (b - a) mod 2^64
clockwise_distance(a, b) == (b - a + MaxId + 1) % (MaxId + 1)

\* distance(a, b) = min(clockwise_distance(a, b), clockwise_distance(b, a))
ring_distance(a, b) == NatMin(clockwise_distance(a, b), clockwise_distance(b, a))

LeafSet_max_size(kk) == 2 * kk + 1

LeafSet_new(id) == << id >>

LeafSet_is_full(kk, l) == Len(l) = LeafSet_max_size(kk)

\* The entries of a set of ids laid out for owner id.
LeafLayout(kk, id, S) ==
    IF Cardinality(S) # LeafSet_max_size(kk) THEN SortedSeq(S)
    ELSE LET ds   == SortedSeq({ clockwise_distance(id, x) : x \in S })
             ring == [i \in 1 .. Len(ds) |-> (id + ds[i]) % (MaxId + 1)]
         IN  SubSeq(ring, kk + 2, 2 * kk + 1) \o SubSeq(ring, 1, kk + 1)

\* furthest counter-clockwise ("first") and furthest clockwise ("last")
\* neighbours; defined when the set is full.
get_furthest_counter_clockwise_neighbor(kk, l) ==
    IF LeafSet_is_full(kk, l) THEN l[1] ELSE None

get_furthest_clockwise_neighbor(kk, l) ==
    IF LeafSet_is_full(kk, l) THEN l[Len(l)] ELSE None

\* x lies strictly between a and b going clockwise from a.
StrictlyClockwiseBetween(a, b, x) ==
    /\ x # a
    /\ x # b
    /\ clockwise_distance(a, x) < clockwise_distance(a, b)

\* LeafSet::insert.  Result: [ok, set].  The owner's id and an id already
\* present are ignored; a full set displaces its furthest entry on the side
\* the id falls in, and fails when the id is in neither half.
LeafSet_insert(kk, id, l, key) ==
    IF key = id \/ key \in SeqToSet(l) THEN [ok |-> TRUE, set |-> l]
    ELSE IF ~LeafSet_is_full(kk, l)
         THEN [ok |-> TRUE, set |-> LeafLayout(kk, id, SeqToSet(l) \cup {key})]
    ELSE IF StrictlyClockwiseBetween(id, l[Len(l)], key)
         THEN [ok |-> TRUE,
               set |-> LeafLayout(kk, id, (SeqToSet(l) \ {l[Len(l)]}) \cup {key})]
    ELSE IF StrictlyClockwiseBetween(l[1], id, key)
         THEN [ok |-> TRUE,
               set |-> LeafLayout(kk, id, (SeqToSet(l) \ {l[1]}) \cup {key})]
    ELSE [ok |-> FALSE, set |-> l]

\* LeafSet::remove.  Refuses the owner's id and an id that is not an entry.
LeafSet_remove(kk, id, l, key) ==
    IF key = id \/ key \notin SeqToSet(l) THEN [ok |-> FALSE, set |-> l]
    ELSE [ok |-> TRUE, set |-> LeafLayout(kk, id, SeqToSet(l) \ {key})]

\* LeafSet::get (owner): the entry that is the clockwise predecessor of key;
\* None when the set is full and key is outside the arc [first, last].
LeafSet_get(kk, l, key) ==
    IF ~LeafSet_is_full(kk, l)
    THEN LET below == { e \in SeqToSet(l) : e <= key }
         IN  IF below # {} THEN SetMax(below) ELSE SetMax(SeqToSet(l))
    ELSE LET first == l[1]
             last  == l[Len(l)]
         IN  IF clockwise_distance(first, key) > clockwise_distance(first, last)
             THEN None
             ELSE CHOOSE e \in SeqToSet(l) :
                    /\ clockwise_distance(first, e) <= clockwise_distance(first, key)
                    /\ \A f \in SeqToSet(l) :
                          clockwise_distance(first, f) <= clockwise_distance(first, key)
                             => clockwise_distance(first, f) <= clockwise_distance(first, e)

\* LeafSet::get_closest: the entry nearest to key on the ring, the clockwise
\* one of two equidistant entries.
LeafSet_get_closest(l, key) ==
    CHOOSE e \in SeqToSet(l) :
        \A f \in SeqToSet(l) \ {e} :
            \/ ring_distance(e, key) < ring_distance(f, key)
            \/ /\ ring_distance(e, key) = ring_distance(f, key)
               /\ clockwise_distance(key, e) <= clockwise_distance(key, f)

\* LeafSet::is_clockwise_neighbor: [ok, cw]; an error for the owner and for
\* an id that is not an entry.
IndexOf(l, x) == CHOOSE i \in DOMAIN l : l[i] = x

LeafSet_is_clockwise_neighbor(kk, id, l, key) ==
    IF key = id \/ key \notin SeqToSet(l) THEN [ok |-> FALSE, cw |-> FALSE]
    ELSE [ok |-> TRUE, cw |-> IndexOf(l, key) > IndexOf(l, id)]

(***************************************************************************)
(* dht/store.rs                                                            *)
(***************************************************************************)

NoValue == 0

\* Store::get, Store::set, Store::delete on a store [keys -> value or NoValue].
Store_get(st, key) == st[key]

\* set that keeps the value of a key that is present
Store_set_absent(st, key, value) ==
    IF st[key] = NoValue THEN [st EXCEPT ![key] = value] ELSE st

Store_set(st, key, value) == [st EXCEPT ![key] = value]

\* delete that leaves the store as it is
Store_delete_keep(st, key) == st

Store_delete(st, key) == [st EXCEPT ![key] = NoValue]

\* Store::get_entries(f): the stored keys on which f holds.
Store_keys(st) == { key \in DOMAIN st : st[key] # NoValue }

(***************************************************************************)
(* The overlay: state of every node, and the requests in flight.           *)
(***************************************************************************)

VARIABLES
    k,        \* Config.k, the leaf set's half width
    net,      \* the ids of the nodes of this run
    keys,     \* the keys clients use in this run
    name,     \* State.name of each node
    up,       \* the nodes whose server is running (spawned, not aborted)
    leaf,     \* StateData.leaf of each node
    table,    \* StateData.table of each node
    store,    \* State.store of each node
    wlock,    \* nodes whose State.data write lock is held across calls
    rlock,    \* per node, read locks on State.data held across calls
    q,        \* the client's query in flight
    jn,       \* per node, its join (connect_to_network) in progress
    tfix,     \* detached fix_table_entry tasks: <<node, failed, started>>
    written,  \* per key, the value of the last acknowledged Set / Delete
    budget    \* client operations, joins and kills still allowed

ovars == << k, net, keys, name, up, leaf, table, store, wlock, rlock, q, jn,
            tfix, written, budget >>

\* the routing table under test, on its own
VARIABLES
    t_id,     \* RoutingTable.id
    t_table,  \* RoutingTable.table
    t_last    \* the last call made: [op, key, m, before, res]

tvars == << t_id, t_table, t_last >>

\* State.name of one node with the tasks that change it or wait for it
VARIABLES
    g_name,   \* State.name
    g_main,   \* the task that owns the node: [mode, pc]
    g_h       \* per request, its handler: [pc, rpc]

gvars == << g_name, g_main, g_h >>

\* one run of the task transfer_keys_service spawns
VARIABLES
    x_first,  \* the sender's store when the task took its write lock
    x_store,  \* the sender's store
    x_pc,     \* the task's position
    x_todo,   \* the entries the loop has still to visit
    x_rx,     \* the receiving end of the channel is open
    x_sent,   \* the pairs whose send returned Ok
    x_failed  \* the keys whose send returned Err

xvars == << x_first, x_store, x_pc, x_todo, x_rx, x_sent, x_failed >>

\* one call of connect_with_retry
VARIABLES
    r_pc,       \* where the call is
    r_retries,  \* the local variable retries
    r_attempts, \* connect calls made so far
    r_err,      \* the error of the last failed connect
    r_ret       \* what the call returned

rvars == << r_pc, r_retries, r_attempts, r_err, r_ret >>

\* one call of a function of hring/ring.rs or util.rs
VARIABLES
    f_call      \* the last call made: [fn, a, b, x, res]

fvars == << f_call >>

\* the centered range set of pastry/leaf.rs under test, on its own
VARIABLES
    s_size,     \* LeafSet.size
    s_center,   \* the key the set was created with
    s_set,      \* LeafSet.set, slot i of the Vec at position i + 1
    s_last      \* the last call made: [op, key, before, ok, res]

svars == << s_size, s_center, s_set, s_last >>

\* everything that is not the overlay
uvars == << tvars, gvars, xvars, rvars, fvars, svars >>

vars == << ovars, uvars >>

Unitialized         == "Unitialized"
Initializing        == "Initializing"
UpdatingConnections == "UpdatingConnections"
RoutingRequests     == "RoutingRequests"

NodeState == { Unitialized, Initializing, UpdatingConnections, RoutingRequests }

\* QueryType
Get    == "Get"
Set    == "Set"
Delete == "Delete"

\* QueryError
NoError          == "NoError"
KeyNotFound      == "KeyNotFound"
ValueNotProvided == "ValueNotProvided"

(***************************************************************************)
(* Node::update_routing_table and Node::update_leaf_set: insert the        *)
(* entries one after the other; update_leaf_set stops at the first error.  *)
(***************************************************************************)

RECURSIVE update_routing_table(_, _, _)
update_routing_table(id, t, entries) ==
    IF entries = << >> THEN t
    ELSE update_routing_table(id, RoutingTable_insert(id, t, Head(entries)),
                              Tail(entries))

\* update_leaf_set returning after its first insert
update_leaf_set_first(kk, id, l, entries) ==
    IF entries = << >> THEN [ok |-> TRUE, set |-> l]
    ELSE LeafSet_insert(kk, id, l, Head(entries))

RECURSIVE update_leaf_set(_, _, _, _)
update_leaf_set(kk, id, l, entries) ==
    IF entries = << >> THEN [ok |-> TRUE, set |-> l]
    ELSE LET r == LeafSet_insert(kk, id, l, Head(entries))
         IN  IF ~r.ok THEN r
             ELSE update_leaf_set(kk, id, r.set, Tail(entries))

(***************************************************************************)
(* tests/setup.rs: a network brought up by Network::init_by_state.         *)
(***************************************************************************)

\* util::get_neighbors(vector, index, k) on the sorted ids; index from 0.
get_neighbors(vector, index, kk) ==
    LET len == Len(vector)
    IN  IF len = 0 \/ index >= len \/ kk = 0 THEN << >>
        ELSE IF len < 2 * kk + 1 THEN vector
        ELSE [i \in 1 .. (2 * kk + 1) |->
                 IF i <= kk + 1
                 THEN vector[((index + len - (kk + 1 - i)) % len) + 1]
                 ELSE vector[((index + (i - (kk + 1))) % len) + 1]]

SelectNot(s, x) == SelectSeq(s, LAMBDA e : e # x)

\* Node::route_with_state for the node at position index of the sorted ids.
StateLeaf(kk, ids, n) ==
    LET vector == SortedSeq(ids)
        index  == IndexOf(vector, n) - 1
    IN  update_leaf_set(kk, n, LeafSet_new(n),
                        SelectNot(get_neighbors(vector, index, kk), n)).set

StateTable(ids, n) == update_routing_table(n, RoutingTable_new, SortedSeq(ids))

(***************************************************************************)
(* Bounds of the runs.                                                     *)
(***************************************************************************)

\* forwarding steps after which the model stops following a request
MaxHops == 17

\* client values are 1 .. MaxValue
MaxValue == 2

Value == 1 .. MaxValue

(***************************************************************************)
(* service/query.rs: a client's query, followed from handler to handler.   *)
(* pc is the place of the handler that holds the request at node `at`:     *)
(*   recv     Node::query entered, before block_until_routing_requests     *)
(*   leaf     in query_with_leaf_set                                       *)
(*   table    in query_with_routing_table                                  *)
(*   closest  in query_with_closest_from_leaf_set                          *)
(*   fix, fixw     in fix_leaf_entry for node fx: before change_state,     *)
(*            then waiting for the write lock                              *)
(*   fanout, fanfix   in the loop of warn_and_fix_leaf_entry over fan:     *)
(*            before the next fix_leaf_set call, then inside the call,     *)
(*            whose handler waits for its write lock                       *)
(*   done     the query was executed at `at`; the response travels back    *)
(*            through the handlers of path to the client                   *)
(*   panic    the handler panicked; the client has an error                *)
(* path lists the handlers that forwarded the request and await the        *)
(* response, execs the executions of the query so far.                     *)
(***************************************************************************)

IdleQuery ==
    [pc |-> "idle", at |-> None, first |-> None, key |-> None, qtype |-> Get,
     value |-> NoValue, hops |-> 0, matched |-> 0, fx |-> None, fan |-> << >>,
     ret |-> "idle", from_id |-> None, rvalue |-> NoValue, error |-> NoError,
     hops0 |-> 0, fwd |-> 0, path |-> << >>, execs |-> << >>]

\* execute_query whose Set without a value clears the key
execute_query_set_none(st, qtype, key, value) ==
    CASE qtype = Set ->
            IF value = NoValue
            THEN [store |-> Store_delete(st, key), value |-> NoValue,
                  error |-> ValueNotProvided]
            ELSE [store |-> Store_set(st, key, value),
                  value |-> Store_get(st, key), error |-> NoError]
      [] qtype = Get ->
            IF Store_get(st, key) = NoValue
            THEN [store |-> st, value |-> NoValue, error |-> KeyNotFound]
            ELSE [store |-> st, value |-> Store_get(st, key), error |-> NoError]
      [] qtype = Delete ->
            IF Store_get(st, key) = NoValue
            THEN [store |-> st, value |-> NoValue, error |-> KeyNotFound]
            ELSE [store |-> Store_delete(st, key),
                  value |-> Store_get(st, key), error |-> NoError]

\* Node::execute_query on store st: [store, value, error]
execute_query(st, qtype, key, value) ==
    CASE qtype = Set ->
            IF value = NoValue
            THEN [store |-> st, value |-> NoValue, error |-> ValueNotProvided]
            ELSE [store |-> Store_set(st, key, value),
                  value |-> Store_get(st, key), error |-> NoError]
      [] qtype = Get ->
            IF Store_get(st, key) = NoValue
            THEN [store |-> st, value |-> NoValue, error |-> KeyNotFound]
            ELSE [store |-> st, value |-> Store_get(st, key), error |-> NoError]
      [] qtype = Delete ->
            IF Store_get(st, key) = NoValue
            THEN [store |-> st, value |-> NoValue, error |-> KeyNotFound]
            ELSE [store |-> Store_delete(st, key),
                  value |-> Store_get(st, key), error |-> NoError]

\* route_with_leaf_set answering with the entry nearest to the key
route_with_leaf_set_closest(n, key) == LeafSet_get_closest(leaf[n], key)

\* Node::route_with_leaf_set, get_closest_from_leaf_set, route_with_routing_table
route_with_leaf_set(n, key) == LeafSet_get(k, leaf[n], key)
get_closest_from_leaf_set(n, key) == LeafSet_get_closest(leaf[n], key)
route_with_routing_table(n, key, min_matched_digits) ==
    Table_route(n, table[n], key, min_matched_digits)

\* Node::block_until_routing_requests returns at node n
Gate(n) == up[n] /\ name[n] = RoutingRequests

\* a read lock on State.data of n can be taken
CanRead(n) == ~wlock[n]

\* a write lock on State.data of n can be taken
CanWrite(n) == ~wlock[n] /\ rlock[n] = 0

\* The client sends a query with the given hops field to node n (a
\* connection to n succeeds).
IssueQueryHops(n, key, qtype, value, hops) ==
    /\ q.pc = "idle"
    /\ budget.ops > 0
    /\ up[n]
    /\ q' = [IdleQuery EXCEPT !.pc = "recv", !.at = n, !.first = n, !.key = key,
                              !.qtype = qtype, !.value = value,
                              !.hops = hops, !.hops0 = hops]
    /\ budget' = [budget EXCEPT !.ops = @ - 1]
    /\ UNCHANGED uvars
    /\ UNCHANGED << k, net, keys, name, up, leaf, table, store, wlock, rlock,
                    jn, tfix, written >>

\* The client sends a query as the tests do, with hops: 0.
IssueQuery(n, key, qtype, value) == IssueQueryHops(n, key, qtype, value, 0)

\* query_service up to its first decision: the owner executes, any other
\* node prepares the request it will forward.
QueryRecv ==
    /\ q.pc = "recv"
    /\ Gate(q.at)
    /\ CanRead(q.at)
    /\ IF route_with_leaf_set(q.at, q.key) = q.at
       THEN LET r == execute_query(store[q.at], q.qtype, q.key, q.value)
            IN  /\ store' = [store EXCEPT ![q.at] = r.store]
                /\ q' = [q EXCEPT !.pc = "done", !.from_id = q.at,
                                  !.rvalue = r.value, !.error = r.error,
                                  !.execs = Append(@, [node |-> q.at,
                                                        error |-> r.error])]
                /\ written' = IF r.error = NoError /\ q.qtype = Set
                              THEN [written EXCEPT ![q.key] = q.value]
                              ELSE IF r.error = NoError /\ q.qtype = Delete
                              THEN [written EXCEPT ![q.key] = NoValue]
                              ELSE written
       ELSE /\ q.hops < MaxHops
            /\ q' = [q EXCEPT !.pc = "leaf",
                              !.matched = get_num_matched_digits(q.at, q.key),
                              !.hops = @ + 1]
            /\ UNCHANGED << store, written >>
    /\ UNCHANGED uvars
    /\ UNCHANGED << k, net, keys, name, up, leaf, table, wlock, rlock, jn, tfix,
                    budget >>

\* Node::query returns: the client has the response, or the error of a
\* handler that panicked.
QueryReturn ==
    /\ q.pc \in {"done", "panic"}
    /\ q' = IdleQuery
    /\ UNCHANGED uvars
    /\ UNCHANGED << k, net, keys, name, up, leaf, table, store, wlock, rlock,
                    jn, tfix, written, budget >>

\* the handler of tok.at awaits the response of the request it sent in
\* stage tok.pc
Awaiting(tok) == [node |-> tok.at, via |-> tok.pc, hops |-> tok.hops]

\* a forward that counts one more hop
Forward_hop(tok, node) ==
    [tok EXCEPT !.pc = "recv", !.at = node, !.fwd = @ + 1, !.hops = @ + 1,
                !.path = Append(@, Awaiting(tok))]

\* connect_and_query(node) succeeded: the request is now node's (fwd counts
\* the requests sent from node to node, path holds the handlers that await
\* a response).
Forward(tok, node) ==
    [tok EXCEPT !.pc = "recv", !.at = node, !.fwd = @ + 1,
                !.path = Append(@, Awaiting(tok))]

\* query_with_leaf_set, one turn of its loop
QueryLeaf ==
    /\ q.pc = "leaf"
    /\ CanRead(q.at)
    /\ LET node == route_with_leaf_set(q.at, q.key)
       IN  q' = IF node = None THEN [q EXCEPT !.pc = "table"]
                ELSE IF up[node] THEN Forward(q, node)
                ELSE [q EXCEPT !.pc = "fix", !.fx = node, !.ret = "leaf"]
    /\ UNCHANGED uvars
    /\ UNCHANGED << k, net, keys, name, up, leaf, table, store, wlock, rlock,
                    jn, tfix, written, budget >>

\* query_with_routing_table
QueryTable ==
    /\ q.pc = "table"
    /\ CanRead(q.at)
    /\ LET r == route_with_routing_table(q.at, q.key, q.matched)
       IN  /\ q' = IF r.kind = "none" \/ r.node = q.at
                   THEN [q EXCEPT !.pc = "closest"]
                   ELSE IF up[r.node] THEN Forward(q, r.node)
                   ELSE [q EXCEPT !.pc = "closest"]
           /\ tfix' = IF r.kind = "some" /\ r.node # q.at /\ ~up[r.node]
                      THEN tfix \cup { << q.at, r.node, FALSE >> }
                      ELSE tfix
    /\ UNCHANGED uvars
    /\ UNCHANGED << k, net, keys, name, up, leaf, table, store, wlock, rlock,
                    jn, written, budget >>

\* query_with_closest_from_leaf_set, one turn of its loop
QueryClosest ==
    /\ q.pc = "closest"
    /\ CanRead(q.at)
    /\ LET node == get_closest_from_leaf_set(q.at, q.key)
       IN  q' = IF up[node] THEN Forward(q, node)
                ELSE [q EXCEPT !.pc = "fix", !.fx = node, !.ret = "closest"]
    /\ UNCHANGED uvars
    /\ UNCHANGED << k, net, keys, name, up, leaf, table, store, wlock, rlock,
                    jn, tfix, written, budget >>

(***************************************************************************)
(* Networks brought up by init_by_state, as the query tests do.            *)
(***************************************************************************)

NoJoin ==
    [pc |-> "off", at |-> None, hops |-> 0, matched |-> 0, rt |-> {},
     fx |-> None, fan |-> << >>, ret |-> "off", term |-> None,
     rleaf |-> << >>, stream |-> {}, ann |-> << >>, fwd |-> 0,
     path |-> << >>]

TableIdle ==
    /\ t_id = 0
    /\ t_table = RoutingTable_new
    /\ t_last = [op |-> "none", key |-> 0, m |-> 0, before |-> RoutingTable_new,
                 res |-> NoRoute]

GateIdle ==
    /\ g_name = Unitialized
    /\ g_main = [mode |-> "none", pc |-> "new"]
    /\ g_h = << >>

TransferIdle ==
    /\ x_first = << >>
    /\ x_store = << >>
    /\ x_pc = "off"
    /\ x_todo = << >>
    /\ x_rx = FALSE
    /\ x_sent = {}
    /\ x_failed = {}

RetryIdle ==
    /\ r_pc = "off"
    /\ r_retries = 0
    /\ r_attempts = 0
    /\ r_err = 0
    /\ r_ret = [kind |-> "none", err |-> 0]

FnIdle == f_call = [fn |-> "none", a |-> 0, b |-> 0, x |-> 0, res |-> 0]

SetIdle ==
    /\ s_size = 0
    /\ s_center = 0
    /\ s_set = << >>
    /\ s_last = [op |-> "none", key |-> 0, before |-> << >>, ok |-> TRUE,
                 res |-> None]

UnitsIdle ==
    TableIdle /\ GateIdle /\ TransferIdle /\ RetryIdle /\ FnIdle /\ SetIdle

StableInit(sc) ==
    /\ k = sc.k
    /\ net = sc.ids
    /\ keys = sc.keys
    /\ name = [n \in sc.ids |-> RoutingRequests]
    /\ up = [n \in sc.ids |-> TRUE]
    /\ leaf = [n \in sc.ids |-> StateLeaf(sc.k, sc.ids, n)]
    /\ table = [n \in sc.ids |-> StateTable(sc.ids, n)]
    /\ store = [n \in sc.ids |-> [key \in sc.keys |-> NoValue]]
    /\ wlock = [n \in sc.ids |-> FALSE]
    /\ rlock = [n \in sc.ids |-> 0]
    /\ q = IdleQuery
    /\ jn = [n \in sc.ids |-> NoJoin]
    /\ tfix = {}
    /\ written = [key \in sc.keys |-> NoValue]
    /\ budget = [ops |-> sc.ops, launch |-> << >>, kills |-> sc.kills]

\* client operations per run of a stable network
StableOps == 3

StableScenarios ==
    { [k |-> 2, ids |-> {100, 200, 300, 400, 500}, keys |-> {350, 50, 500},
       ops |-> StableOps, kills |-> 0],
      [k |-> 1, ids |-> {MaxId - 10, 0, 10, 1024, 2048, 2560},
       keys |-> {MaxId - 5, 5, 2049, MaxId},
       ops |-> StableOps - 1, kills |-> 0],
      [k |-> 1, ids |-> {256, 257, 1280, 2304}, keys |-> {496, 255},
       ops |-> StableOps - 1, kills |-> 0],
      [k |-> 1, ids |-> {256, 272, 288, 304, 1280}, keys |-> {496, 300},
       ops |-> StableOps - 1, kills |-> 0],
      [k |-> 1, ids |-> {16}, keys |-> {5, 16},
       ops |-> StableOps, kills |-> 0] }

InitStable == UnitsIdle /\ \E sc \in StableScenarios : StableInit(sc)

\* tests/util.rs find_responsible: the greatest id <= key, else the greatest id
find_responsible(ids, key) ==
    IF \E n \in ids : n <= key
    THEN SetMax({n \in ids : n <= key})
    ELSE SetMax(ids)

\* Node::query called by a client
\* the hops fields a client's Get starts with
ClientHops == {0, 1}

ClientQuery ==
    \E n \in net, key \in keys, qtype \in {Get, Set, Delete},
       value \in Value \cup {NoValue}, hops \in ClientHops :
        /\ (qtype = Set \/ value = NoValue)
        /\ (qtype = Get \/ hops = 0)
        /\ IssueQueryHops(n, key, qtype, value, hops)

NextStable ==
    \/ ClientQuery
    \/ QueryRecv
    \/ QueryLeaf
    \/ QueryTable
    \/ QueryClosest
    \/ QueryReturn

SpecStable == InitStable /\ [][NextStable]_vars

(***************************************************************************)
(* Claims about queries on a stable overlay.                               *)
(***************************************************************************)

\* C1: in a stable overlay a query that is executed is executed by the peer
\* with the greatest id <= key (the greatest id of all when the key is below
\* every id), and response.from_id is that peer's id.
C1_ExecutedByPredecessor ==
    q.pc = "done" =>
        /\ q.from_id = find_responsible(net, q.key)
        /\ q.at = q.from_id

\* C1 witness: a query for a key below every id, issued at a peer that is not
\* its owner, has been answered.
C1_Witness ==
    /\ q.pc = "done"
    /\ q.first # q.from_id
    /\ \A n \in net : q.key < n

\* the live peer with the smallest ring distance to key, a tie going clockwise
numerically_closest(ids, key) == LeafSet_get_closest(SortedSeq(ids), key)

\* C2: a query is executed at the live peer whose id has the smallest ring
\* distance to the key, a tie going to the clockwise peer (Get 350 issued at
\* peer 100 of {100, 200, 300, 400, 500}, k = 2, returns from_id = 400).
C2_ExecutedByClosest ==
    q.pc = "done" => q.from_id = numerically_closest(net, q.key)

\* C8: in a stable overlay no request is forwarded more than 16 times.
C8_HopsBounded == q.hops - q.hops0 <= 16

(***************************************************************************)
(* pastry/table.rs driven alone: one RoutingTable, any sequence of insert  *)
(* and remove calls.  t_last remembers the last call and the table before  *)
(* it.                                                                     *)
(***************************************************************************)

\* owners of the table under test
TableOwners == {4077, 256}

\* ids passed to insert and remove: some share a prefix with an owner, some
\* fall into the same cell, and the owners themselves
TableKeys == {4077, 4064, 4065, 3840, 3856, 291, 511, 256, 257}

OverlayIdle ==
    /\ k = 1
    /\ net = {}
    /\ keys = {}
    /\ name = << >>
    /\ up = << >>
    /\ leaf = << >>
    /\ table = << >>
    /\ store = << >>
    /\ wlock = << >>
    /\ rlock = << >>
    /\ q = IdleQuery
    /\ jn = << >>
    /\ tfix = {}
    /\ written = << >>
    /\ budget = [ops |-> 0, launch |-> << >>, kills |-> 0]

InitTable ==
    /\ OverlayIdle
    /\ GateIdle /\ TransferIdle /\ RetryIdle /\ FnIdle /\ SetIdle
    /\ t_id \in TableOwners
    /\ t_table = RoutingTable_new
    /\ t_last = [op |-> "none", key |-> 0, m |-> 0, before |-> RoutingTable_new,
                 res |-> NoRoute]

TInsert ==
    \E key \in TableKeys :
        /\ t_table' = RoutingTable_insert(t_id, t_table, key)
        /\ t_last' = [op |-> "insert", key |-> key, m |-> 0, before |-> t_table,
                      res |-> NoRoute]
        /\ UNCHANGED << t_id, ovars, gvars, xvars, rvars, fvars, svars >>

TRemove ==
    \E key \in TableKeys :
        /\ t_table' = RoutingTable_remove(t_id, t_table, key)
        /\ t_last' = [op |-> "remove", key |-> key, m |-> 0, before |-> t_table,
                      res |-> NoRoute]
        /\ UNCHANGED << t_id, ovars, gvars, xvars, rvars, fvars, svars >>

\* a route call: the table is read, the answer is kept in t_last
TRoute ==
    \E key \in TableKeys, m \in 0 .. U64_HEX_NUM_OF_DIGITS :
        /\ t_last' = [op |-> "route", key |-> key, m |-> m, before |-> t_table,
                      res |-> RoutingTable_route(t_id, t_table, key, m)]
        /\ UNCHANGED << t_id, t_table, ovars, gvars, xvars, rvars, fvars, svars >>

NextTable == TInsert \/ TRemove \/ TRoute

SpecTable == InitTable /\ [][NextTable]_vars

\* the occupied cells of a table, as << row, column, id >> (rows from 0)
OccupiedCells(t) ==
    { cell \in { << r, c, t[r + 1][c] >> :
                    r \in 0 .. (Len(t) - 1), c \in 0 .. (HEX_BASE - 1) } :
        cell[3] # None }

\* C10: after any sequence of insert and remove calls every occupied cell
\* (r, c) holds an id that shares exactly its first r hex digits with the
\* owner and whose digit r is c; no id is in two cells; inserting the owner's
\* own id changes nothing.
C10_TableCells ==
    /\ \A cell \in OccupiedCells(t_table) :
          /\ SharedPrefix(t_id, cell[3]) = cell[1]
          /\ get_nth_digit_in_u64_hex(cell[3], cell[1]) = cell[2]
    /\ \A c1, c2 \in OccupiedCells(t_table) : c1[3] = c2[3] => c1 = c2
    /\ (t_last.op = "insert" /\ t_last.key = t_id) => t_table = t_last.before

\* C10 witness: three rows hold entries, an entry was overwritten or removed
\* before, and the last call inserted the owner's id.
C10_Witness ==
    /\ Len(t_table) = U64_HEX_NUM_OF_DIGITS
    /\ \A r \in 1 .. Len(t_table) : \E c \in 0 .. (HEX_BASE - 1) : t_table[r][c] # None
    /\ t_last.op = "insert"
    /\ t_last.key = t_id

(***************************************************************************)
(* Join: node.rs connect_to_network at the joining node p, and             *)
(* service/join.rs at the nodes that route its request.  jn[p].pc:         *)
(*   off      p has not been started                                       *)
(*   recv     the join request is at node `at`, before its gate            *)
(*   leaf, table, closest   in join_with_leaf_set / _routing_table /       *)
(*            _closest_from_leaf_set at node `at`                          *)
(*   resp     p holds the JoinResponse of node term                        *)
(*   xfer     term's transfer task has sent the keys (stream, which keeps  *)
(*            what p was sent)                                             *)
(*   ann      p is in announce_arrival, ann lists who is still to be told  *)
(*   annwait  the head of ann has taken the announcement past its gate     *)
(*   done, failed, panic   connect_to_network is over                      *)
(***************************************************************************)

JoinInProgress ==
    \E n \in DOMAIN jn : jn[n].pc \notin {"off", "done", "failed", "panic"}

\* join_service lines 23-44: rows matched_digits.. of the table of a, merged
\* into the request's routing_table (sorted by id, no id twice: a set)
JoinMergeRows(a, matched_digits, routing_table) ==
    routing_table \cup
        ({ table[a][r][c] :
             r \in { x \in 1 .. Len(table[a]) : x >= matched_digits + 1 },
             c \in 0 .. (HEX_BASE - 1) } \ {None})

\* join_service lines 49-67: the leaf set a answers with
\* a response that carries the whole leaf set
JoinResponseLeaf_whole(a) == leaf[a]

JoinResponseLeaf(a) ==
    IF LeafSet_is_full(k, leaf[a])
    THEN LeafSet_remove(k, a, leaf[a],
                        get_furthest_counter_clockwise_neighbor(k, leaf[a])).set
    ELSE leaf[a]

\* bootstrap_and_serve(Some(b)) up to the join RPC sent to b
JoinStart(p, b) ==
    /\ name[p] = Unitialized
    /\ up[p]
    /\ budget.launch # << >>
    /\ p = Head(budget.launch)
    /\ b \in net /\ up[b] /\ name[b] # Unitialized
    /\ name' = [name EXCEPT ![p] = Initializing]
    /\ net' = net \cup {p}
    /\ wlock' = [wlock EXCEPT ![p] = TRUE]
    /\ jn' = [jn EXCEPT ![p] = [NoJoin EXCEPT !.pc = "recv", !.at = b]]
    /\ budget' = [budget EXCEPT !.launch = Tail(@)]
    /\ UNCHANGED uvars
    /\ UNCHANGED << k, keys, up, leaf, table, store, rlock, q, tfix, written >>

\* join_service up to its first decision
JoinRecv(p) ==
    LET j == jn[p]
        rt == JoinMergeRows(j.at, j.matched, j.rt)
    IN  /\ j.pc = "recv"
        /\ Gate(j.at)
        /\ CanRead(j.at)
        /\ IF route_with_leaf_set(j.at, p) = j.at
           THEN jn' = [jn EXCEPT ![p] = [j EXCEPT !.pc = "resp", !.rt = rt,
                                           !.term = j.at,
                                           !.rleaf = JoinResponseLeaf(j.at)]]
           ELSE /\ j.hops < MaxHops
                /\ jn' = [jn EXCEPT ![p] =
                            [j EXCEPT !.pc = "leaf", !.rt = rt,
                                      !.matched = get_num_matched_digits(j.at, p),
                                      !.hops = @ + 1]]
        /\ UNCHANGED uvars
        /\ UNCHANGED << k, net, keys, name, up, leaf, table, store, wlock, rlock,
                        q, tfix, written, budget >>

\* join_with_leaf_set, one turn of its loop
JoinLeaf(p) ==
    LET j == jn[p]
        node == route_with_leaf_set(j.at, p)
    IN  /\ j.pc = "leaf"
        /\ CanRead(j.at)
        /\ jn' = [jn EXCEPT ![p] =
                    IF node = None THEN [j EXCEPT !.pc = "table"]
                    ELSE IF up[node] THEN Forward(j, node)
                    ELSE [j EXCEPT !.pc = "fix", !.fx = node, !.ret = "leaf"]]
        /\ UNCHANGED uvars
        /\ UNCHANGED << k, net, keys, name, up, leaf, table, store, wlock, rlock,
                        q, tfix, written, budget >>

\* join_with_routing_table
JoinTable(p) ==
    LET j == jn[p]
        r == route_with_routing_table(j.at, p, j.matched)
    IN  /\ j.pc = "table"
        /\ CanRead(j.at)
        /\ jn' = [jn EXCEPT ![p] =
                    IF r.kind = "none" \/ r.node = j.at
                    THEN [j EXCEPT !.pc = "closest"]
                    ELSE IF up[r.node] THEN Forward(j, r.node)
                    ELSE [j EXCEPT !.pc = "closest"]]
        /\ tfix' = IF r.kind = "some" /\ r.node # j.at /\ ~up[r.node]
                   THEN tfix \cup { << j.at, r.node, FALSE >> }
                   ELSE tfix
        /\ UNCHANGED uvars
        /\ UNCHANGED << k, net, keys, name, up, leaf, table, store, wlock, rlock,
                        q, written, budget >>

\* join_with_closest_from_leaf_set, one turn of its loop
JoinClosest(p) ==
    LET j == jn[p]
        node == get_closest_from_leaf_set(j.at, p)
    IN  /\ j.pc = "closest"
        /\ CanRead(j.at)
        /\ jn' = [jn EXCEPT ![p] =
                    IF node = j.at THEN [j EXCEPT !.pc = "panic"]
                    ELSE IF up[node] THEN Forward(j, node)
                    ELSE [j EXCEPT !.pc = "fix", !.fx = node, !.ret = "closest"]]
        /\ wlock' = IF node = j.at THEN [wlock EXCEPT ![p] = FALSE] ELSE wlock
        /\ UNCHANGED uvars
        /\ UNCHANGED << k, net, keys, name, up, leaf, table, store, rlock,
                        q, tfix, written, budget >>

\* transfer_keys_service at the responder: the spawned task sends every key
\* that is not in [term, p) and deletes what it sent
JoinTransferSend(p) ==
    LET j == jn[p]
        c == j.term
        moved == { key \in Store_keys(store[c]) : ~is_in_range(c, p, key) }
    IN  /\ j.pc = "resp"
        /\ up[c]
        /\ store' = [store EXCEPT ![c] =
                        [key \in DOMAIN store[c] |->
                            IF key \in moved THEN NoValue ELSE store[c][key]]]
        /\ jn' = [jn EXCEPT ![p] =
                    [j EXCEPT !.pc = "xfer",
                              !.stream = { << key, store[c][key] >> : key \in moved }]]
        /\ UNCHANGED uvars
        /\ UNCHANGED << k, net, keys, name, up, leaf, table, wlock, rlock,
                        q, tfix, written, budget >>

\* announce_arrival without its first loop
AnnounceList_table_only(p, l, t) == SelectNot(RoutingTable_get_entries(t), p)

\* what announce_arrival will visit: the leaf entries, then the table entries
AnnounceList(p, l, t) ==
    SelectNot(l, p) \o SelectNot(RoutingTable_get_entries(t), p)

\* connect_to_network lines 280-291: the stream is stored, then the table
\* and the leaf set are filled from the JoinResponse
JoinTransferRecv(p) ==
    LET j == jn[p]
        t == update_routing_table(p, table[p], SortedSeq(j.rt))
        l == update_leaf_set(k, p, leaf[p], j.rleaf)
    IN  /\ j.pc = "xfer"
        /\ store' = [store EXCEPT ![p] =
                        [key \in DOMAIN store[p] |->
                            IF \E e \in j.stream : e[1] = key
                            THEN (CHOOSE e \in j.stream : e[1] = key)[2]
                            ELSE store[p][key]]]
        /\ table' = [table EXCEPT ![p] = t]
        /\ leaf' = [leaf EXCEPT ![p] = l.set]
        /\ jn' = [jn EXCEPT ![p] =
                    IF l.ok
                    THEN [j EXCEPT !.pc = "ann", !.ann = AnnounceList(p, l.set, t)]
                    ELSE [j EXCEPT !.pc = "failed"]]
        /\ wlock' = IF l.ok THEN wlock ELSE [wlock EXCEPT ![p] = FALSE]
        /\ UNCHANGED uvars
        /\ UNCHANGED << k, net, keys, name, up, rlock, q, tfix, written, budget >>

\* announce_arrival, one turn of its loops: the next entry is sent the
\* announcement (its handler passes the gate and changes state), or the loops
\* are over and bootstrap_and_serve changes state to RoutingRequests
JoinAnnounce(p) ==
    LET j == jn[p]
    IN  /\ j.pc = "ann"
        /\ IF j.ann = << >>
           THEN /\ jn' = [jn EXCEPT ![p] = [j EXCEPT !.pc = "done"]]
                /\ wlock' = [wlock EXCEPT ![p] = FALSE]
                /\ name' = [name EXCEPT ![p] = RoutingRequests]
           ELSE IF ~up[Head(j.ann)]
           THEN /\ jn' = [jn EXCEPT ![p] = [j EXCEPT !.pc = "failed"]]
                /\ wlock' = [wlock EXCEPT ![p] = FALSE]
                /\ UNCHANGED name
           ELSE /\ Gate(Head(j.ann))
                /\ jn' = [jn EXCEPT ![p] = [j EXCEPT !.pc = "annwait"]]
                /\ name' = [name EXCEPT ![Head(j.ann)] = UpdatingConnections]
                /\ UNCHANGED wlock
        /\ UNCHANGED uvars
        /\ UNCHANGED << k, net, keys, up, leaf, table, store, rlock, q, tfix,
                        written, budget >>

\* announce_arrival_service from its write lock on
\* a service that updates the routing table only
JoinAnnounceApply_table(p) ==
    LET j == jn[p]
        r == Head(j.ann)
    IN  /\ j.pc = "annwait"
        /\ CanWrite(r)
        /\ table' = [table EXCEPT ![r] = RoutingTable_insert(r, table[r], p)]
        /\ name' = [name EXCEPT ![r] = RoutingRequests]
        /\ jn' = [jn EXCEPT ![p] = [j EXCEPT !.pc = "ann", !.ann = Tail(@)]]
        /\ UNCHANGED uvars
        /\ UNCHANGED << k, net, keys, up, leaf, store, wlock, rlock, q, tfix,
                        written, budget >>

JoinAnnounceApply(p) ==
    LET j == jn[p]
        r == Head(j.ann)
        g == LeafSet_get(k, leaf[r], p)
        ins == IF g # None /\ g # p
               THEN LeafSet_insert(k, r, leaf[r], p)
               ELSE [ok |-> TRUE, set |-> leaf[r]]
    IN  /\ j.pc = "annwait"
        /\ CanWrite(r)
        /\ leaf' = [leaf EXCEPT ![r] = ins.set]
        /\ IF ins.ok
           THEN /\ table' = [table EXCEPT ![r] = RoutingTable_insert(r, table[r], p)]
                /\ name' = [name EXCEPT ![r] = RoutingRequests]
                /\ jn' = [jn EXCEPT ![p] = [j EXCEPT !.pc = "ann", !.ann = Tail(@)]]
                /\ UNCHANGED wlock
           ELSE /\ jn' = [jn EXCEPT ![p] = [j EXCEPT !.pc = "failed"]]
                /\ wlock' = [wlock EXCEPT ![p] = FALSE]
                /\ UNCHANGED << table, name >>
        /\ UNCHANGED uvars
        /\ UNCHANGED << k, net, keys, up, store, rlock, q, tfix, written, budget >>

(***************************************************************************)
(* Networks grown by joins, as tests/setup.rs init_by_join and add_node do:*)
(* the first node serves alone, every other node joins through a node that *)
(* is already in the network.                                              *)
(***************************************************************************)

JoinInit(sc) ==
    /\ k = sc.k
    /\ net = {Head(sc.order)}
    /\ keys = sc.keys
    /\ name = [n \in sc.ids |->
                IF n = Head(sc.order) THEN RoutingRequests ELSE Unitialized]
    /\ up = [n \in sc.ids |-> TRUE]
    /\ leaf = [n \in sc.ids |-> LeafSet_new(n)]
    /\ table = [n \in sc.ids |-> RoutingTable_new]
    /\ store = [n \in sc.ids |-> [key \in sc.keys |-> NoValue]]
    /\ wlock = [n \in sc.ids |-> FALSE]
    /\ rlock = [n \in sc.ids |-> 0]
    /\ q = IdleQuery
    /\ jn = [n \in sc.ids |-> NoJoin]
    /\ tfix = {}
    /\ written = [key \in sc.keys |-> NoValue]
    /\ budget = [ops |-> sc.ops, launch |-> Tail(sc.order), kills |-> sc.kills]

\* client operations per run of a network that grows
SeqOps == 1

\* the orders in which the harness can launch the nodes ids
LaunchOrders(ids) ==
    { o \in [1 .. Cardinality(ids) -> ids] : \A i, j \in DOMAIN o : i # j => o[i] # o[j] }

SeqScenarios ==
    { [k |-> 1, ids |-> {MaxId - 10, 0, 10, 2048}, order |-> o,
       keys |-> {MaxId - 5, 5}, ops |-> SeqOps, kills |-> 0]
        : o \in LaunchOrders({MaxId - 10, 0, 10, 2048}) }
    \cup
    { [k |-> 2, ids |-> {100, 200, 300, 400, 500, 600}, order |-> o,
       keys |-> {350}, ops |-> SeqOps, kills |-> 0]
        : o \in { << 300, 100, 500, 200, 600, 400 >>,
                  << 600, 500, 400, 300, 200, 100 >> } }

InitSeq == UnitsIdle /\ \E sc \in SeqScenarios : JoinInit(sc)

\* a client's Set between two joins
SeqClientQuery ==
    /\ ~JoinInProgress
    /\ \E n \in net, key \in keys, value \in Value : IssueQuery(n, key, Set, value)

\* a node is started while no other join and no query is under way
SeqJoinStart ==
    /\ ~JoinInProgress
    /\ q.pc = "idle"
    /\ \E p \in DOMAIN name, b \in net : JoinStart(p, b)

NextSeq ==
    \/ SeqClientQuery
    \/ QueryRecv
    \/ QueryLeaf
    \/ QueryTable
    \/ QueryClosest
    \/ QueryReturn
    \/ SeqJoinStart
    \/ \E p \in net : JoinRecv(p)
    \/ \E p \in net : JoinLeaf(p)
    \/ \E p \in net : JoinTable(p)
    \/ \E p \in net : JoinClosest(p)
    \/ \E p \in net : JoinTransferSend(p)
    \/ \E p \in net : JoinTransferRecv(p)
    \/ \E p \in net : JoinAnnounce(p)
    \/ \E p \in net : JoinAnnounceApply(p)

SpecSeq == InitSeq /\ [][NextSeq]_vars

\* the peers that have joined
Joined == { n \in net : jn[n].pc \in {"off", "done"} }

\* tests/join.rs: the leaf set get_neighbors expects of n among ids
ExpectedLeaf(ids, n) ==
    SeqToSet(get_neighbors(SortedSeq(ids), IndexOf(SortedSeq(ids), n) - 1, k))

\* C5: after joins run one after another, each through an arbitrary joined
\* bootstrap peer, every peer's leaf set is all N peers when N < 2k+1 and
\* otherwise the peer plus its k nearest peers on each side of the ring.
C5_LeafSetsAfterJoins ==
    (~JoinInProgress /\ Joined = net) =>
        \A n \in net : SeqToSet(leaf[n]) = ExpectedLeaf(net, n)

\* C5 witness: all nodes have joined and there are more than 2k+1 of them.
C5_Witness ==
    /\ ~JoinInProgress
    /\ Joined = DOMAIN name
    /\ Cardinality(net) > LeafSet_max_size(k)

\* C6: after the join of P has completed, every peer Q in P's leaf set has P
\* in its own leaf set.
C6_LeafSetsSymmetric ==
    ~JoinInProgress =>
        \A p \in net : jn[p].pc = "done" =>
            \A x \in SeqToSet(leaf[p]) : p \in SeqToSet(leaf[x])

\* C6 witness: a join into a network of full leaf sets has completed.
C6_Witness ==
    /\ ~JoinInProgress
    /\ \E p \in net :
          /\ jn[p].pc = "done"
          /\ LeafSet_is_full(k, leaf[p])
          /\ \E x \in net : x \notin SeqToSet(leaf[p])

\* C4: whenever no join is in progress, after any sequence of Set queries and
\* sequential joins every stored key is in exactly one store, the one of the
\* peer with the greatest id <= key (wrapping), with the value last written.
C4_KeysAtOwner ==
    ~JoinInProgress =>
        \A key \in keys, n \in DOMAIN store :
            IF written[key] # NoValue /\ n = find_responsible(Joined, key)
            THEN store[n][key] = written[key]
            ELSE store[n][key] = NoValue

\* C4 witness: a join is over in which keys were handed to the new peer, one
\* of them a key above every id, and the peer still holds them.
C4_Witness ==
    /\ ~JoinInProgress
    /\ \E p \in net :
          /\ jn[p].pc = "done"
          /\ \E e \in jn[p].stream :
                /\ store[p][e[1]] = e[2]
                /\ \A n \in net : n < e[1]

(***************************************************************************)
(* service/fail.rs: repair of a leaf entry and of a table entry.           *)
(***************************************************************************)

Reverse(s) == [i \in 1 .. Len(s) |-> s[Len(s) + 1 - i]]

\* Iterator::take_while(|e| e.id != a) on a sequence that holds a
TakeWhileNot(s, a) == SubSeq(s, 1, IndexOf(s, a) - 1)

\* LeafSet::get_entries and get_set: every entry, the owner included
LeafSet_get_entries(l) == l

\* fix_leaf_entry lines 66-84: the entries of a neighbour's leaf set are
\* inserted one after the other; the first error ends the repair.  (Here
\* and in FixWalk a quantifier over a one-element set names an intermediate
\* result, so that it is computed once.)
\* the neighbour's entries pushed onto the leaf set without LeafSet::insert
FixInsertAll_push(id, l, entries) == [ok |-> TRUE, set |-> l \o entries]

RECURSIVE FixInsertAll(_, _, _)
FixInsertAll(id, l, entries) ==
    IF entries = << >> THEN [ok |-> TRUE, set |-> l]
    ELSE CHOOSE res \in
            { IF ~r.ok THEN r ELSE FixInsertAll(id, r.set, Tail(entries)) :
                r \in { LeafSet_insert(k, id, l, Head(entries)) } } : TRUE

\* fix_leaf_entry lines 51-98: the loop over the neighbours on the side of
\* the failed node x.  Result: the leaf set, how the repair ended (ok, err,
\* panic) and the neighbours whose get_node_state was called.
RECURSIVE FixWalk(_, _, _, _, _)
FixWalk(a, x, l, side, asked) ==
    IF side = << >>
    THEN [set |-> l, out |-> IF LeafSet_is_full(k, l) THEN "ok" ELSE "panic",
          asked |-> asked]
    ELSE LET y == Head(side)
         IN  IF ~up[y] THEN FixWalk(a, x, l, Tail(side), asked)
             ELSE CHOOSE res \in
                    { IF ~r.ok
                      THEN [set |-> r.set, out |-> "err", asked |-> asked \cup {y}]
                      ELSE IF LeafSet_is_full(k, r.set)
                      THEN [set |-> r.set, out |-> "ok", asked |-> asked \cup {y}]
                      ELSE FixWalk(a, x, r.set, Tail(side), asked \cup {y}) :
                        r \in { FixInsertAll(a, l,
                                  SelectSeq(LeafSet_get_entries(leaf[y]),
                                            LAMBDA e : e # y /\ e # x /\ up[e])) } }
                    : TRUE

\* Node::fix_leaf_entry at node a for the failed node x, from its write lock
\* on: [set, out, asked].
\* a repair that returns without touching the leaf set
fix_leaf_entry_keep(a, x) == [set |-> leaf[a], out |-> "ok", asked |-> {}]

fix_leaf_entry(a, x) ==
    LET l == leaf[a]
    IN  IF ~LeafSet_is_full(k, l)
        THEN LET r == LeafSet_remove(k, a, l, x)
             IN  [set |-> r.set, out |-> IF r.ok THEN "ok" ELSE "panic",
                  asked |-> {}]
        ELSE LET c == LeafSet_is_clockwise_neighbor(k, a, l, x)
             IN  IF ~c.ok THEN [set |-> l, out |-> "ok", asked |-> {}]
                 ELSE LET fwd  == SelectNot(l, x)
                          side == IF ~c.cw THEN TakeWhileNot(fwd, a)
                                  ELSE TakeWhileNot(Reverse(fwd), a)
                      IN  CHOOSE res \in
                            { FixWalk(a, x, l1, s1, {}) :
                                l1 \in { LeafSet_remove(k, a, l, x).set },
                                s1 \in { side } } : TRUE

\* The request whose handler runs the repair: None names the client's query,
\* an id the join of that node.
Tok(h) == IF h = None THEN q ELSE jn[h]

SetTok(h, t) ==
    IF h = None THEN q' = t /\ UNCHANGED jn
    ELSE jn' = [jn EXCEPT ![h] = t] /\ UNCHANGED q

Handles == {None} \cup { p \in DOMAIN jn : jn[p].pc # "off" }

\* every get_node_state of a repair at its gate finds the node routing
AskedAnswer(asked) == \A y \in asked : Gate(y) /\ CanRead(y)

\* warn_and_fix_leaf_entry, fix_leaf_entry line 17: change_state
FixStart(h) ==
    LET t == Tok(h)
    IN  /\ t.pc = "fix"
        /\ name' = [name EXCEPT ![t.at] = UpdatingConnections]
        /\ SetTok(h, [t EXCEPT !.pc = "fixw"])
        /\ UNCHANGED uvars
        /\ UNCHANGED << k, net, keys, up, leaf, table, store, wlock, rlock,
                        tfix, written, budget >>

\* fix_leaf_entry from its write lock to its return; warn_and_fix_leaf_entry
\* drops the result and takes the read lock of its fan-out loop
FixApply(h) ==
    LET t == Tok(h)
        r == fix_leaf_entry(t.at, t.fx)
    IN  /\ t.pc = "fixw"
        /\ CanWrite(t.at)
        /\ AskedAnswer(r.asked)
        /\ leaf' = [leaf EXCEPT ![t.at] = r.set]
        /\ name' = IF r.out = "ok" THEN [name EXCEPT ![t.at] = RoutingRequests]
                   ELSE name
        /\ IF r.out = "panic"
           THEN /\ SetTok(h, [t EXCEPT !.pc = "panic"])
                /\ wlock' = IF h = None THEN wlock ELSE [wlock EXCEPT ![h] = FALSE]
                /\ UNCHANGED rlock
           ELSE /\ SetTok(h, [t EXCEPT !.pc = "fanout",
                                       !.fan = LeafSet_get_entries(r.set)])
                /\ rlock' = [rlock EXCEPT ![t.at] = @ + 1]
                /\ UNCHANGED wlock
        /\ UNCHANGED uvars
        /\ UNCHANGED << k, net, keys, up, table, store, tfix, written, budget >>

\* warn_and_fix_leaf_entry lines 176-195, one turn of the loop: the entry is
\* not reachable, or its fix_leaf_set handler passes its gate and returns or
\* goes on to fix_leaf_entry; after the last entry the read lock is dropped
Fanout(h) ==
    LET t == Tok(h)
    IN  /\ t.pc = "fanout"
        /\ IF t.fan = << >>
           THEN /\ rlock' = [rlock EXCEPT ![t.at] = @ - 1]
                /\ SetTok(h, [t EXCEPT !.pc = t.ret, !.fx = None])
                /\ UNCHANGED name
           ELSE LET e == Head(t.fan)
                IN  IF ~up[e]
                    THEN /\ SetTok(h, [t EXCEPT !.fan = Tail(@)])
                         /\ UNCHANGED << name, rlock >>
                    ELSE /\ Gate(e)
                         /\ CanRead(e)
                         /\ IF LeafSet_get(k, leaf[e], t.fx) = None
                            THEN /\ SetTok(h, [t EXCEPT !.fan = Tail(@)])
                                 /\ UNCHANGED name
                            ELSE /\ SetTok(h, [t EXCEPT !.pc = "fanfix"])
                                 /\ name' = [name EXCEPT ![e] = UpdatingConnections]
                         /\ UNCHANGED rlock
        /\ UNCHANGED uvars
        /\ UNCHANGED << k, net, keys, up, leaf, table, store, wlock, tfix,
                        written, budget >>

\* fix_leaf_set_service at the notified entry, from the write lock of its
\* fix_leaf_entry on; the notifier drops the outcome
FanoutFix(h) ==
    LET t == Tok(h)
        e == Head(t.fan)
        r == fix_leaf_entry(e, t.fx)
    IN  /\ t.pc = "fanfix"
        /\ CanWrite(e)
        /\ AskedAnswer(r.asked)
        /\ leaf' = [leaf EXCEPT ![e] = r.set]
        /\ name' = IF r.out = "ok" THEN [name EXCEPT ![e] = RoutingRequests]
                   ELSE name
        /\ SetTok(h, [t EXCEPT !.pc = "fanout", !.fan = Tail(@)])
        /\ UNCHANGED uvars
        /\ UNCHANGED << k, net, keys, up, table, store, wlock, rlock, tfix,
                        written, budget >>

\* get_node_table_entry_service at node e
get_node_table_entry_service(e, row, column) ==
    IF row < Len(table[e]) THEN table[e][row + 1][column] ELSE None

\* fix_table_entry lines 125-153: the entries of one row are asked for their
\* entry at cell; the first answer that is not x is inserted
RECURSIVE FixRowEntries(_, _, _, _, _, _)
FixRowEntries(a, x, t, entries, cell, asked) ==
    IF entries = << >> THEN [table |-> t, asked |-> asked]
    ELSE LET e == Head(entries)
         IN  IF e = x \/ e = a \/ ~up[e]
             THEN FixRowEntries(a, x, t, Tail(entries), cell, asked)
             ELSE LET rep == get_node_table_entry_service(e, cell[1], cell[2])
                  IN  IF rep # None /\ rep # x
                      THEN [table |-> RoutingTable_insert(a, t, rep),
                            asked |-> asked \cup {e}]
                      ELSE FixRowEntries(a, x, t, Tail(entries), cell,
                                         asked \cup {e})

\* fix_table_entry lines 124-159: the rows from matched on
RECURSIVE FixRows(_, _, _, _, _, _)
FixRows(a, x, t, matched, cell, asked) ==
    IF matched >= Len(t) THEN [table |-> t, asked |-> asked]
    ELSE LET r == FixRowEntries(a, x, t, RowEntriesFrom(t[matched + 1], 0),
                                cell, asked)
         IN  IF matched + 1 = U64_HEX_NUM_OF_DIGITS THEN r
             ELSE FixRows(a, x, r.table, matched + 1, cell, r.asked)

\* Node::fix_table_entry at node a for the failed node x, from its write
\* lock on: [table, out, asked]
fix_table_entry(a, x) ==
    LET t1 == RoutingTable_remove(a, table[a], x)
        matched_digits == get_num_matched_digits(a, x)
    IN  IF matched_digits + 1 >= U64_HEX_NUM_OF_DIGITS
        THEN [table |-> t1, out |-> "err", asked |-> {}]
        ELSE LET column_index == get_nth_digit_in_u64_hex(x, matched_digits + 1)
                 r == FixRows(a, x, t1, matched_digits,
                              << matched_digits, column_index >>, {})
             IN  [table |-> r.table, out |-> "ok", asked |-> r.asked]

\* the task spawned by warn_and_fix_table_entry starts: change_state
TableFixStart ==
    \E task \in tfix :
        /\ ~task[3]
        /\ up[task[1]]
        /\ name' = [name EXCEPT ![task[1]] = UpdatingConnections]
        /\ tfix' = (tfix \ {task}) \cup { << task[1], task[2], TRUE >> }
        /\ UNCHANGED uvars
        /\ UNCHANGED << k, net, keys, up, leaf, table, store, wlock, rlock, q,
                        jn, written, budget >>

\* fix_table_entry from its write lock to its return
TableFixApply ==
    \E task \in tfix :
        LET a == task[1]
            r == fix_table_entry(a, task[2])
        IN  /\ task[3]
            /\ up[a]
            /\ CanWrite(a)
            /\ AskedAnswer(r.asked)
            /\ table' = [table EXCEPT ![a] = r.table]
            /\ name' = IF r.out = "ok" THEN [name EXCEPT ![a] = RoutingRequests]
                       ELSE name
            /\ tfix' = tfix \ {task}
            /\ UNCHANGED uvars
            /\ UNCHANGED << k, net, keys, up, leaf, store, wlock, rlock, q, jn,
                            written, budget >>

\* tests/fail.rs line 41: the harness aborts the server of node x, while no
\* request is under way
Kill(x) ==
    /\ budget.kills > 0
    /\ up[x]
    /\ name[x] = RoutingRequests
    /\ q.pc = "idle"
    /\ ~JoinInProgress
    /\ up' = [up EXCEPT ![x] = FALSE]
    /\ tfix' = { task \in tfix : task[1] # x }
    /\ budget' = [budget EXCEPT !.kills = @ - 1]
    /\ UNCHANGED uvars
    /\ UNCHANGED << k, net, keys, name, leaf, table, store, wlock, rlock, q, jn,
                    written >>

(***************************************************************************)
(* Networks in which nodes are killed, as tests/fail.rs does: a network    *)
(* brought up by init_by_state, nodes aborted one at a time, and queries   *)
(* for the id of the aborted node.  The nodes that may be aborted are the  *)
(* ones whose id is one of the run's keys.                                 *)
(***************************************************************************)

\* client operations and kills per run
FailOps == 2
FailKills == 1

FailScenarios ==
    { [k |-> 2, ids |-> {100, 200, 300, 400, 500, 600, 700}, keys |-> {400},
       ops |-> FailOps, kills |-> FailKills],
      [k |-> 2, ids |-> {100, 200, 300}, keys |-> {200},
       ops |-> FailOps, kills |-> FailKills],
      [k |-> 1, ids |-> {100, 200, 300, 400}, keys |-> {200},
       ops |-> FailOps, kills |-> FailKills],
      [k |-> 1, ids |-> {256, 272, 288, 304, 1280}, keys |-> {300, 304},
       ops |-> FailOps, kills |-> FailKills] }

InitFail == UnitsIdle /\ \E sc \in FailScenarios : StableInit(sc)

FailKill == \E x \in net \cap keys : Kill(x)

NextFail ==
    \/ ClientQuery
    \/ QueryRecv
    \/ QueryLeaf
    \/ QueryTable
    \/ QueryClosest
    \/ QueryReturn
    \/ FailKill
    \/ \E h \in Handles : FixStart(h)
    \/ \E h \in Handles : FixApply(h)
    \/ \E h \in Handles : Fanout(h)
    \/ \E h \in Handles : FanoutFix(h)
    \/ TableFixStart
    \/ TableFixApply

SpecFail == InitFail /\ [][NextFail]_vars

\* The tokio runtime polls a task that can make a step: while a handler, a
\* repair or a spawned task is not waiting for a lock, for a gate or for a
\* call it made, one of them makes its step.  The client and the harness
\* are under no obligation to send a query or to kill a node.
FailStep ==
    \/ QueryRecv
    \/ QueryLeaf
    \/ QueryTable
    \/ QueryClosest
    \/ QueryReturn
    \/ \E h \in Handles : FixStart(h)
    \/ \E h \in Handles : FixApply(h)
    \/ \E h \in Handles : Fanout(h)
    \/ \E h \in Handles : FanoutFix(h)
    \/ TableFixStart
    \/ TableFixApply

FairFail == WF_vars(FailStep)

SpecFailFair == SpecFail /\ FairFail

\* the nodes whose server runs
Live == { n \in net : up[n] }

\* a client has sent a query for the id of a killed node to a node that
\* still has the killed node in its leaf set
C7_Asked ==
    /\ q.pc = "recv"
    /\ q.hops = 0
    /\ q.key \in net
    /\ ~up[q.key]
    /\ q.key \in SeqToSet(leaf[q.at])

\* the node the client asked has answered, and its leaf set is the one
\* get_neighbors expects among the live nodes
C7_Repaired ==
    /\ q.pc = "done"
    /\ q.key \notin SeqToSet(leaf[q.first])
    /\ SeqToSet(leaf[q.first]) = ExpectedLeaf(Live, q.first)

ChurnInit(sc) ==
    LET all == sc.ids \cup SeqToSet(sc.order)
    IN  /\ k = sc.k
        /\ net = sc.ids
        /\ keys = sc.keys
        /\ name = [n \in all |->
                    IF n \in sc.ids THEN RoutingRequests ELSE Unitialized]
        /\ up = [n \in all |-> TRUE]
        /\ leaf = [n \in all |->
                    IF n \in sc.ids THEN StateLeaf(sc.k, sc.ids, n)
                    ELSE LeafSet_new(n)]
        /\ table = [n \in all |->
                    IF n \in sc.ids THEN StateTable(sc.ids, n)
                    ELSE RoutingTable_new]
        /\ store = [n \in all |-> [key \in sc.keys |-> NoValue]]
        /\ wlock = [n \in all |-> FALSE]
        /\ rlock = [n \in all |-> 0]
        /\ q = IdleQuery
        /\ jn = [n \in all |-> NoJoin]
        /\ tfix = {}
        /\ written = [key \in sc.keys |-> NoValue]
        /\ budget = [ops |-> sc.ops, launch |-> sc.order, kills |-> sc.kills]

\* client operations and kills per run
ChurnOps == 2
ChurnKills == 1

ChurnScenarios ==
    { [k |-> 1, ids |-> {100}, order |-> << 300 >>, keys |-> {350, 50},
       ops |-> ChurnOps, kills |-> 0],
      [k |-> 1, ids |-> {100}, order |-> << 300, 200 >>, keys |-> {250},
       ops |-> ChurnOps - 1, kills |-> 0],
      [k |-> 1, ids |-> {256, 272, 288, 304, 1280}, order |-> << 300 >>,
       keys |-> {300}, ops |-> ChurnOps - 1, kills |-> 0],
      [k |-> 1, ids |-> {256, 257, 1280, 2304}, order |-> << 496 >>,
       keys |-> {496}, ops |-> ChurnOps - 1, kills |-> 0],
      [k |-> 2, ids |-> {100, 200, 300, 400, 500, 600}, order |-> << 450 >>,
       keys |-> {400}, ops |-> ChurnOps - 1, kills |-> ChurnKills],
      [k |-> 1, ids |-> {256, 272, 288, 304, 1280}, order |-> << >>,
       keys |-> {300, 304}, ops |-> ChurnOps - 1, kills |-> ChurnKills],
      [k |-> 2, ids |-> {100, 200, 300}, order |-> << 250 >>,
       keys |-> {200}, ops |-> ChurnOps - 1, kills |-> ChurnKills],
      [k |-> 1, ids |-> {256, 272, 512, 768}, order |-> << 528 >>,
       keys |-> {512}, ops |-> ChurnOps - 1, kills |-> ChurnKills] }

InitChurn == UnitsIdle /\ \E sc \in ChurnScenarios : ChurnInit(sc)

ChurnJoinStart == \E p \in DOMAIN name, b \in net : JoinStart(p, b)

\* a client's Set or Get, at any time
ChurnClientQuery ==
    \E n \in net, key \in keys, qtype \in {Get, Set} :
        IssueQuery(n, key, qtype, IF qtype = Set THEN MaxValue ELSE NoValue)

NextChurn ==
    \/ ChurnClientQuery
    \/ QueryRecv
    \/ QueryLeaf
    \/ QueryTable
    \/ QueryClosest
    \/ QueryReturn
    \/ ChurnJoinStart
    \/ \E p \in net : JoinRecv(p)
    \/ \E p \in net : JoinLeaf(p)
    \/ \E p \in net : JoinTable(p)
    \/ \E p \in net : JoinClosest(p)
    \/ \E p \in net : JoinTransferSend(p)
    \/ \E p \in net : JoinTransferRecv(p)
    \/ \E p \in net : JoinAnnounce(p)
    \/ \E p \in net : JoinAnnounceApply(p)
    \/ FailKill
    \/ \E h \in Handles : FixStart(h)
    \/ \E h \in Handles : FixApply(h)
    \/ \E h \in Handles : Fanout(h)
    \/ \E h \in Handles : FanoutFix(h)
    \/ TableFixStart
    \/ TableFixApply

SpecChurn == InitChurn /\ [][NextChurn]_vars

\* C3: a Get(K) issued at any live peer returns the value of the most recent
\* acknowledged Set(K, v) that no later Delete(K) removed, whatever joins
\* happen between the Set and the Get (no peer has been killed).
C3_GetReturnsLastSet ==
    (q.pc = "done" /\ q.qtype = Get /\ \A n \in net : up[n]) =>
        IF written[q.key] = NoValue
        THEN q.error = KeyNotFound
        ELSE q.error = NoError /\ q.rvalue = written[q.key]

C11_HandlersGated ==
    [][ /\ (q.pc = "recv" /\ q' # q) => name[q.at] = RoutingRequests
        /\ (q.pc = "fanout" /\ q'.pc = "fanfix")
              => name[Head(q.fan)] = RoutingRequests
        /\ \A p \in DOMAIN jn :
              /\ (jn[p].pc = "recv" /\ jn'[p] # jn[p])
                    => name[jn[p].at] = RoutingRequests
              /\ (jn[p].pc = "fanout" /\ jn'[p].pc = "fanfix")
                    => name[Head(jn[p].fan)] = RoutingRequests
              /\ (jn[p].pc = "ann" /\ jn'[p].pc = "annwait")
                    => name[Head(jn[p].ann)] = RoutingRequests
              /\ (jn[p].pc = "resp" /\ jn'[p].pc = "xfer")
                    => name[jn[p].term] = RoutingRequests ]_vars

(***************************************************************************)
(* node.rs: State.name of one node, the tasks that change it and the       *)
(* handlers that wait for it.  The tasks run on the multi-thread runtime   *)
(* (#[tokio::main], #[tokio::test(flavor = "multi_thread")]), so steps of  *)
(* different tasks interleave at every statement.                          *)
(* g_main.pc:  new, serving, updating, done                                *)
(* g_h[h].pc:  idle     the request has not arrived                        *)
(*             read     in block_until_routing_requests, before the read   *)
(*                      of State.name                                      *)
(*             seen     the loop's condition was true (the state read was  *)
(*                      not RoutingRequests) and the read guard is         *)
(*                      dropped; notified() is not yet called              *)
(*             wait     awaiting the Notified future                       *)
(*             pass     the gate is passed                                 *)
(*             upd      the handler has changed state to                   *)
(*                      UpdatingConnections and mutates the state's data   *)
(*             done     the handler has returned                           *)
(***************************************************************************)

\* requests that reach the node in one run
GateHandlers == 2

\* the handlers of a request that only reads and of one that changes state
GateRpcs == {"query", "announce_arrival"}

\* Notify::notify_waiters: every waiter that is registered is made ready;
\* no permit is kept for a waiter that registers later
notify_waiters(hs) ==
    [h \in DOMAIN hs |->
        IF hs[h].pc = "wait" THEN [hs[h] EXCEPT !.pc = "read"] ELSE hs[h]]

\* Node::change_state, with hs the handlers as the caller leaves them
change_state(next_state, hs) ==
    /\ g_name' = next_state
    /\ g_h' = notify_waiters(hs)

InitGate ==
    /\ OverlayIdle /\ TableIdle /\ TransferIdle /\ RetryIdle /\ FnIdle /\ SetIdle
    /\ g_name = Unitialized
    /\ g_main \in [mode : {"bootstrap_and_serve", "route_with_state"}, pc : {"new"}]
    /\ g_h = [h \in 1 .. GateHandlers |-> [pc |-> "idle", rpc |-> "none"]]

\* serve that spawns the server and leaves the state as it is
GateServe_silent ==
    /\ g_main.pc = "new"
    /\ g_main' = [g_main EXCEPT !.pc = "serving"]
    /\ UNCHANGED << g_name, g_h >>
    /\ UNCHANGED << ovars, tvars, xvars, rvars, fvars, svars >>

\* bootstrap_and_serve / serve: change_state(Initializing), then the server
\* is spawned
GateServe ==
    /\ g_main.pc = "new"
    /\ change_state(Initializing, g_h)
    /\ g_main' = [g_main EXCEPT !.pc = "serving"]
    /\ UNCHANGED << ovars, tvars, xvars, rvars, fvars, svars >>

\* bootstrap_and_serve: change_state(RoutingRequests)
GateBootstrapped ==
    /\ g_main.pc = "serving"
    /\ g_main.mode = "bootstrap_and_serve"
    /\ change_state(RoutingRequests, g_h)
    /\ g_main' = [g_main EXCEPT !.pc = "done"]
    /\ UNCHANGED << ovars, tvars, xvars, rvars, fvars, svars >>

\* route_with_state: change_state(UpdatingConnections)
GateRouteWithState ==
    /\ g_main.pc = "serving"
    /\ g_main.mode = "route_with_state"
    /\ change_state(UpdatingConnections, g_h)
    /\ g_main' = [g_main EXCEPT !.pc = "updating"]
    /\ UNCHANGED << ovars, tvars, xvars, rvars, fvars, svars >>

\* route_with_state: change_state(RoutingRequests)
GateRouteWithStateDone ==
    /\ g_main.pc = "updating"
    /\ change_state(RoutingRequests, g_h)
    /\ g_main' = [g_main EXCEPT !.pc = "done"]
    /\ UNCHANGED << ovars, tvars, xvars, rvars, fvars, svars >>

\* a request reaches the server and its handler starts
GateArrive(h) ==
    /\ g_h[h].pc = "idle"
    /\ g_main.pc # "new"
    /\ \E rpc \in GateRpcs : g_h' = [g_h EXCEPT ![h] = [pc |-> "read", rpc |-> rpc]]
    /\ UNCHANGED << g_name, g_main >>
    /\ UNCHANGED << ovars, tvars, xvars, rvars, fvars, svars >>

\* block_until_routing_requests: the loop's condition
GateRead(h) ==
    /\ g_h[h].pc = "read"
    /\ g_h' = [g_h EXCEPT ![h].pc =
                  IF g_name # RoutingRequests THEN "seen" ELSE "pass"]
    /\ UNCHANGED << g_name, g_main >>
    /\ UNCHANGED << ovars, tvars, xvars, rvars, fvars, svars >>

\* block_until_routing_requests: the loop's body, notify.notified()
GateRegister(h) ==
    /\ g_h[h].pc = "seen"
    /\ g_h' = [g_h EXCEPT ![h].pc = "wait"]
    /\ UNCHANGED << g_name, g_main >>
    /\ UNCHANGED << ovars, tvars, xvars, rvars, fvars, svars >>

\* past the gate: query_service returns; announce_arrival_service calls
\* change_state(UpdatingConnections)
GateHandle(h) ==
    /\ g_h[h].pc = "pass"
    /\ IF g_h[h].rpc = "query"
       THEN /\ g_h' = [g_h EXCEPT ![h].pc = "done"]
            /\ UNCHANGED g_name
       ELSE change_state(UpdatingConnections, [g_h EXCEPT ![h].pc = "upd"])
    /\ UNCHANGED g_main
    /\ UNCHANGED << ovars, tvars, xvars, rvars, fvars, svars >>

\* announce_arrival_service: change_state(RoutingRequests)
GateHandled(h) ==
    /\ g_h[h].pc = "upd"
    /\ change_state(RoutingRequests, [g_h EXCEPT ![h].pc = "done"])
    /\ UNCHANGED g_main
    /\ UNCHANGED << ovars, tvars, xvars, rvars, fvars, svars >>

GateRequest == \E h \in DOMAIN g_h : GateArrive(h)
GateWaiterRead == \E h \in DOMAIN g_h : GateRead(h)
GateWaiterRegister == \E h \in DOMAIN g_h : GateRegister(h)
GateHandlerStart == \E h \in DOMAIN g_h : GateHandle(h)
GateHandlerEnd == \E h \in DOMAIN g_h : GateHandled(h)

\* the steps the runtime takes by itself: every task that is ready runs
GateStep ==
    \/ GateServe
    \/ GateBootstrapped
    \/ GateRouteWithState
    \/ GateRouteWithStateDone
    \/ GateWaiterRead
    \/ GateWaiterRegister
    \/ GateHandlerStart
    \/ GateHandlerEnd

NextGate ==
    \/ GateServe
    \/ GateBootstrapped
    \/ GateRouteWithState
    \/ GateRouteWithStateDone
    \/ GateRequest
    \/ GateWaiterRead
    \/ GateWaiterRegister
    \/ GateHandlerStart
    \/ GateHandlerEnd

SpecGate == InitGate /\ [][NextGate]_vars

\* the runtime schedules every task that is ready
FairGate == WF_vars(GateStep)

SpecGateFair == SpecGate /\ FairGate

\* a handler is inside block_until_routing_requests
AtGate(h) == g_h[h].pc \in {"read", "seen", "wait"}

\* C12: once the state is RoutingRequests for good, no handler stays at the
\* gate: every handler that waited in block_until_routing_requests proceeds,
\* also one whose read of the state came before the change and whose
\* registration for the notification came after it.
C12_NoMissedTransition ==
    <>[](g_name = RoutingRequests) => <>[](\A h \in DOMAIN g_h : ~AtGate(h))

\* the changes of state the lifecycle table lists
LifecycleEdges ==
    { << Unitialized, Initializing >>,
      << Initializing, RoutingRequests >>,
      << RoutingRequests, UpdatingConnections >>,
      << UpdatingConnections, RoutingRequests >> }

TransferPrev == 256
TransferNode == 768
TransferKeySet == {16, 512, 1024, 4000}

\* the loop's body for one entry: the store after the send returned
transfer_entry_delete(st, key, sent) == Store_delete(st, key)

transfer_entry(st, key, sent) == IF sent THEN Store_delete(st, key) ELSE st

InitTransfer ==
    /\ OverlayIdle /\ TableIdle /\ GateIdle /\ RetryIdle /\ FnIdle /\ SetIdle
    /\ x_first \in [TransferKeySet -> Value \cup {NoValue}]
    /\ x_store = x_first
    /\ x_pc = "spawned"
    /\ x_todo = << >>
    /\ x_rx = TRUE
    /\ x_sent = {}
    /\ x_failed = {}

\* the task takes the store's write lock and collects the entries outside
\* [prev_id, node_id), in the order the HashMap yields them
TransferCollect ==
    /\ x_pc = "spawned"
    /\ \E order \in LaunchOrders({ key \in Store_keys(x_store) :
                                     ~is_in_range(TransferPrev, TransferNode, key) }) :
          x_todo' = [i \in DOMAIN order |-> << order[i], x_store[order[i]] >>]
    /\ x_pc' = "loop"
    /\ UNCHANGED << x_first, x_store, x_rx, x_sent, x_failed >>
    /\ UNCHANGED << ovars, tvars, gvars, rvars, fvars, svars >>

\* one turn of the loop: tx.send, then delete on Ok or warn on Err
TransferSend ==
    /\ x_pc = "loop"
    /\ IF x_todo = << >>
       THEN /\ x_pc' = "done"
            /\ UNCHANGED << x_store, x_todo, x_sent, x_failed >>
       ELSE LET key == Head(x_todo)[1]
            IN  /\ x_store' = transfer_entry(x_store, key, x_rx)
                /\ x_sent' = IF x_rx THEN x_sent \cup {Head(x_todo)} ELSE x_sent
                /\ x_failed' = IF x_rx THEN x_failed ELSE x_failed \cup {key}
                /\ x_todo' = Tail(x_todo)
                /\ UNCHANGED x_pc
    /\ UNCHANGED << x_first, x_rx >>
    /\ UNCHANGED << ovars, tvars, gvars, rvars, fvars, svars >>

\* the joining node drops the response stream (its connect_to_network
\* returned with an error, or it was aborted)
TransferReceiverGone ==
    /\ x_rx
    /\ x_pc # "done"
    /\ x_rx' = FALSE
    /\ UNCHANGED << x_first, x_store, x_pc, x_todo, x_sent, x_failed >>
    /\ UNCHANGED << ovars, tvars, gvars, rvars, fvars, svars >>

NextTransfer == TransferCollect \/ TransferSend \/ TransferReceiverGone

SpecTransfer == InitTransfer /\ [][NextTransfer]_vars

\* C14: the sender's store loses a key only after the send of that key's
\* pair returned Ok, and a key whose send failed is still stored with its
\* value.
C14_DeleteAfterSend ==
    \A key \in DOMAIN x_store :
        /\ x_store[key] # x_first[key]
              => x_store[key] = NoValue /\ << key, x_first[key] >> \in x_sent
        /\ key \in x_failed => x_store[key] = x_first[key] /\ x_store[key] # NoValue

\* a transfer is over in which one send succeeded and a later one failed
C14_Witness ==
    /\ x_pc = "done"
    /\ x_sent # {}
    /\ x_failed # {}

(***************************************************************************)
(* Store semantics seen through queries, in a network that does not        *)
(* change (SpecStable).                                                    *)
(***************************************************************************)

\* the step in which the owner executes the query in flight
Executes(qtype) == q.pc = "recv" /\ q'.pc = "done" /\ q.qtype = qtype

\* every stored pair but the one of the query in flight stays as it is
OtherKeysUnchanged ==
    \A n \in DOMAIN store : \A key \in DOMAIN store[n] :
        (n # q.at \/ key # q.key) => store'[n][key] = store[n][key]

\* C15: a Set with a value stores that value whatever was stored before,
\* returns the value the key had before (the value of the last acknowledged
\* Set, nothing when there was none) and changes no other key.
C15_SetOverwrites ==
    [][ (Executes(Set) /\ q.value # NoValue) =>
            /\ q'.error = NoError
            /\ store'[q.at][q.key] = q.value
            /\ q'.rvalue = store[q.at][q.key]
            /\ q'.rvalue = written[q.key]
            /\ OtherKeysUnchanged ]_vars

\* the second Set of a key was answered with the first Set's value and its
\* own, different value is the one stored
C15_Witness ==
    /\ q.pc = "done" /\ q.qtype = Set /\ q.error = NoError
    /\ q.rvalue # NoValue
    /\ q.rvalue # q.value
    /\ store[q.from_id][q.key] = q.value

\* C16: a Delete of a stored key returns the value it removes and changes no
\* other key; from then until the next Set of the key, a Get of it at any
\* peer is answered KeyNotFound with no value.
C16_DeleteRemoves ==
    [][ /\ (Executes(Delete) /\ written[q.key] # NoValue) =>
              /\ q'.error = NoError
              /\ q'.rvalue = written[q.key]
              /\ store'[q.at][q.key] = NoValue
              /\ OtherKeysUnchanged
        /\ (Executes(Get) /\ written[q.key] = NoValue) =>
              /\ q'.error = KeyNotFound
              /\ q'.rvalue = NoValue
              /\ store' = store ]_vars

\* a Get entered at a peer that is not the owner was answered KeyNotFound
\* after a Set and a Delete of its key
C16_Witness ==
    /\ q.pc = "done" /\ q.qtype = Get /\ q.error = KeyNotFound
    /\ q.first # q.from_id
    /\ budget.ops = StableOps - 3
    /\ written[q.key] = NoValue
    /\ \A n \in net : store[n][q.key] = NoValue

\* C17: a query that ends in an application error (KeyNotFound for a Get or
\* Delete of an absent key, ValueNotProvided for a Set without a value) is
\* answered by a response that carries the error and no value; its execution
\* changes no store, no leaf set, no routing table and no node's state, and
\* starts no repair.
C17_ErrorsChangeNothing ==
    [][ /\ (Executes(Get) \/ Executes(Delete)) /\ store[q.at][q.key] = NoValue
              => q'.error = KeyNotFound
        /\ Executes(Set) /\ q.value = NoValue => q'.error = ValueNotProvided
        /\ (q.pc = "recv" /\ q'.pc # "recv" /\ q'.error # NoError) =>
              /\ q'.pc = "done"
              /\ q'.from_id = q.at
              /\ q'.rvalue = NoValue
              /\ q'.fx = None /\ q'.fan = << >>
              /\ UNCHANGED << store, leaf, table, name, tfix, written >> ]_vars

\* a Set without a value, entered at a peer that is not the owner of its
\* key, was answered ValueNotProvided and the key's value is still stored
C17_Witness ==
    /\ q.pc = "done" /\ q.qtype = Set /\ q.error = ValueNotProvided
    /\ q.first # q.from_id
    /\ q.rvalue = NoValue
    /\ store[q.from_id][q.key] # NoValue

\* the query in flight has made a routing lookup at node n and has another
\* one to make there
BetweenLookups(n) == q.at = n /\ q.pc \in {"leaf", "table", "closest"}

\* C18: the routing lookups of one query at a peer all see the peer's leaf
\* set and routing table either before or after the insert of an
\* announce-arrival: no announce_arrival_service changes them between two
\* lookups of the query.
C18_LookupsOneVersion ==
    [][ \A p \in DOMAIN jn :
            (/\ jn[p].pc = "annwait"
             /\ jn'[p].pc # "annwait"
             /\ BetweenLookups(Head(jn[p].ann)))
                => /\ leaf'[q.at] = leaf[q.at]
                   /\ table'[q.at] = table[q.at] ]_vars

(***************************************************************************)
(* node.rs connect_with_retry: one call.                                   *)
(* r_pc: off, connect (about to call NodeServiceClient::connect), sleep,   *)
(*       returned                                                          *)
(***************************************************************************)

MAX_CONNECT_RETRIES == 10

\* the errors a connection attempt can fail with are 1 .. ConnectErrors
ConnectErrors == 4

\* the loop gives up one failure later
gives_up_late(retries) == retries > MAX_CONNECT_RETRIES

\* the test `retries >= MAX_CONNECT_RETRIES`
gives_up(retries) == retries >= MAX_CONNECT_RETRIES

InitRetry ==
    /\ OverlayIdle /\ TableIdle /\ GateIdle /\ TransferIdle /\ FnIdle /\ SetIdle
    /\ r_pc = "connect"
    /\ r_retries = 0
    /\ r_attempts = 0
    /\ r_err = 0
    /\ r_ret = [kind |-> "none", err |-> 0]

\* NodeServiceClient::connect returns Ok(client)
RetryConnected ==
    /\ r_pc = "connect"
    /\ r_attempts' = r_attempts + 1
    /\ r_pc' = "returned"
    /\ r_ret' = [kind |-> "Ok", err |-> 0]
    /\ UNCHANGED << r_retries, r_err >>
    /\ UNCHANGED << ovars, tvars, gvars, xvars, fvars, svars >>

\* NodeServiceClient::connect returns Err(err)
RetryFailed ==
    /\ r_pc = "connect"
    /\ \E err \in 1 .. ConnectErrors :
          /\ r_attempts' = r_attempts + 1
          /\ r_retries' = r_retries + 1
          /\ r_err' = err
          /\ IF gives_up(r_retries + 1)
             THEN /\ r_pc' = "returned"
                  /\ r_ret' = [kind |-> "Err", err |-> err]
             ELSE /\ r_pc' = "sleep"
                  /\ UNCHANGED r_ret
    /\ UNCHANGED << ovars, tvars, gvars, xvars, fvars, svars >>

\* tokio::time::sleep(CONNECT_TIMEOUT_SECONDS) is over
RetrySlept ==
    /\ r_pc = "sleep"
    /\ r_pc' = "connect"
    /\ UNCHANGED << r_retries, r_attempts, r_err, r_ret >>
    /\ UNCHANGED << ovars, tvars, gvars, xvars, fvars, svars >>

NextRetry == RetryConnected \/ RetryFailed \/ RetrySlept

SpecRetry == InitRetry /\ [][NextRetry]_vars

\* an attempt returns and a sleep ends
FairRetry == WF_vars(NextRetry)

SpecRetryFair == SpecRetry /\ FairRetry

\* C19: connect_with_retry returns the client at the first attempt that
\* succeeds; otherwise it returns the last error after exactly
\* MAX_CONNECT_RETRIES failed attempts; it never makes one attempt more and
\* it always returns.
C19_RetryBounded ==
    /\ [](r_attempts <= MAX_CONNECT_RETRIES)
    /\ [](r_ret.kind = "Ok" => r_attempts = r_retries + 1)
    /\ [](r_ret.kind = "Err" =>
            /\ r_attempts = MAX_CONNECT_RETRIES
            /\ r_retries = MAX_CONNECT_RETRIES
            /\ r_ret.err = r_err)
    /\ [](r_pc = "returned" <=> r_ret.kind # "none")
    /\ <>(r_pc = "returned")

\* the call gave up with the error of its tenth attempt
C19_Witness ==
    /\ r_pc = "returned"
    /\ r_ret.kind = "Err"
    /\ r_attempts = MAX_CONNECT_RETRIES
    /\ r_ret.err = ConnectErrors

OpRunning(n) ==
    \/ \E h \in Handles : Tok(h).pc = "fixw" /\ Tok(h).at = n
    \/ \E h \in Handles : Tok(h).pc = "fanfix" /\ Head(Tok(h).fan) = n
    \/ \E task \in tfix : task[1] = n /\ task[3]
    \/ \E p \in DOMAIN jn : jn[p].pc = "annwait" /\ Head(jn[p].ann) = n

\* C21: a node is never left in UpdatingConnections with none of the
\* operations that enter that state (announce arrival, leaf repair, table
\* repair) running at it: every exit path of these operations puts the node
\* back in RoutingRequests.
C21_UpdatingHasOperation ==
    \A n \in net :
        (up[n] /\ name[n] = UpdatingConnections) => OpRunning(n)

(***************************************************************************)
(* warn_and_fix_leaf_entry: the FixLeafSet calls of the fan-out            *)
(***************************************************************************)

\* handler h waits in a FixLeafSet call whose fix_leaf_entry needs the
\* write lock of a node that is read-locked by a fan-out loop waiting, in
\* turn, for h: its own loop (the entry is the notifier itself) or the loop
\* of the entry, which is notifying the node of h
FixLeafSetWaitsForever(h) ==
    LET t == Tok(h)
    IN  /\ t.pc = "fanfix"
        /\ \/ Head(t.fan) = t.at
           \/ \E h2 \in Handles \ {h} :
                 /\ Tok(h2).pc = "fanfix"
                 /\ Tok(h2).at = Head(t.fan)
                 /\ Head(Tok(h2).fan) = t.at

\* C22: the fan-out of a leaf repair never waits forever on a FixLeafSet
\* call: no handler waits for a FixLeafSet handler that needs the write
\* lock of a node whose read lock is held by a fan-out loop waiting for it.
C22_FanoutNeverBlocked ==
    \A h \in Handles : ~FixLeafSetWaitsForever(h)

(***************************************************************************)
(* fix_leaf_entry: the get_node_state calls of two concurrent repairs      *)
(***************************************************************************)

\* the neighbours whose get_node_state the leaf repair of handler h calls
\* once it has the write lock
RepairWaitsFor(h) ==
    IF Tok(h).pc = "fixw" THEN fix_leaf_entry(Tok(h).at, Tok(h).fx).asked
    ELSE {}

\* C23: two peers that repair their leaf sets at the same time never wait
\* for each other: there are no two repairs, each past its change_state to
\* UpdatingConnections, each calling get_node_state of the other's node,
\* whose handler waits for RoutingRequests.
C23_NoMutualStateWait ==
    ~ \E h1, h2 \in Handles :
          /\ h1 # h2
          /\ Tok(h1).pc = "fixw"
          /\ Tok(h2).pc = "fixw"
          /\ Tok(h2).at \in RepairWaitsFor(h1)
          /\ Tok(h1).at \in RepairWaitsFor(h2)

(***************************************************************************)
(* fix_leaf_entry: the leaf set after a repair                             *)
(***************************************************************************)

TokNext(h) == IF h = None THEN q' ELSE jn'[h]

\* the step in which the fix_leaf_entry called by handler h returns: the
\* repair of the handler's own node, or the one of the notified entry
RepairReturns(h, a) ==
    \/ Tok(h).pc = "fixw" /\ TokNext(h).pc = "fanout" /\ a = Tok(h).at
    \/ Tok(h).pc = "fanfix" /\ TokNext(h).pc = "fanout" /\ a = Head(Tok(h).fan)

\* C24: when the leaf repair for a failed node x returns and the peer is in
\* RoutingRequests, x is not in the leaf set; a set that was not full has
\* lost exactly x, and a set that was full is full again.
C24_RepairedLeafSet ==
    [][\A h \in Handles : \A a \in net :
          (RepairReturns(h, a) /\ name'[a] = RoutingRequests) =>
             /\ Tok(h).fx \notin SeqToSet(leaf'[a])
             /\ ~LeafSet_is_full(k, leaf[a]) =>
                   /\ SeqToSet(leaf'[a]) = SeqToSet(leaf[a]) \ {Tok(h).fx}
                   /\ Len(leaf'[a]) = Len(leaf[a]) - 1
             /\ LeafSet_is_full(k, leaf[a]) => LeafSet_is_full(k, leaf'[a])]_vars

\* a repair has refilled a full leaf set and is about to notify its entries
C24_Witness ==
    /\ q.pc = "fanout"
    /\ q.fan = LeafSet_get_entries(leaf[q.at])
    /\ name[q.at] = RoutingRequests
    /\ LeafSet_is_full(k, leaf[q.at])
    /\ q.fx \notin SeqToSet(leaf[q.at])
    /\ \E y \in SeqToSet(leaf[q.at]) : q.fx \in SeqToSet(leaf[y])

(***************************************************************************)
(* fix_leaf_entry for a node that is not an entry of the leaf set          *)
(***************************************************************************)

\* the step in which the fix_leaf_entry called by handler h ends, by a
\* return or by a panic
RepairEnds(h, a) ==
    \/ /\ Tok(h).pc = "fixw"
       /\ TokNext(h).pc \in {"fanout", "panic"}
       /\ a = Tok(h).at
    \/ Tok(h).pc = "fanfix" /\ TokNext(h).pc = "fanout" /\ a = Head(Tok(h).fan)

\* C25: a leaf repair for a node that is not an entry of the leaf set
\* leaves the leaf set as it is, does not panic and puts the peer back in
\* RoutingRequests, whether or not the set is full.
C25_AbsentRepairHarmless ==
    [][\A h \in Handles : \A a \in net :
          (RepairEnds(h, a) /\ Tok(h).fx \notin SeqToSet(leaf[a])) =>
             /\ leaf'[a] = leaf[a]
             /\ name'[a] = RoutingRequests
             /\ TokNext(h).pc # "panic"]_vars

(***************************************************************************)
(* fix_table_entry: the cell a table repair asks for                       *)
(***************************************************************************)

\* the table of a after a repair for x that asks the surviving entries of
\* the rows from r on, r the number of leading digits a and x share, for
\* their cell (r, digit r of x) and stops at the first answer that is
\* neither empty nor x
RepairedTable(a, x) ==
    LET t1    == RoutingTable_remove(a, table[a], x)
        r     == get_num_matched_digits(a, x)
        c     == get_nth_digit_in_u64_hex(x, r)
        rep   == [e \in net |-> get_node_table_entry_service(e, r, c)]
        cands == SelectSeq(TableEntriesFrom(t1, r + 1),
                           LAMBDA e : /\ e # x
                                      /\ e # a
                                      /\ up[e]
                                      /\ rep[e] # None
                                      /\ rep[e] # x)
    IN  IF cands = << >> THEN t1
        ELSE RoutingTable_insert(a, t1, rep[Head(cands)])

\* C26: a table repair for the failed node x asks the surviving entries
\* for the cell (r, c) in which x was stored, c the digit of x at the
\* 0-based position r, installs the first answer that differs from x and
\* stops: the step that ends the repair leaves the table so.
C26_TableRepairCell ==
    [][\A task \in tfix :
          (task[3] /\ task \notin tfix' /\ up'[task[1]]) =>
             table'[task[1]] = RepairedTable(task[1], task[2])]_vars

(***************************************************************************)
(* join_service: the response of the terminal hop                          *)
(***************************************************************************)

\* C27: the node at which a join ends answers with its leaf set without
\* the furthest counter-clockwise entry when the set is full and with the
\* whole leaf set otherwise; building the response changes neither its
\* leaf set nor its routing table.
C27_JoinResponseLeafSet ==
    [][\A p \in DOMAIN jn :
          (jn[p].pc = "recv" /\ jn'[p].pc = "resp") =>
             LET a == jn[p].at
                 l == leaf[a]
             IN  /\ jn'[p].term = a
                 /\ SeqToSet(jn'[p].rleaf) =
                       IF LeafSet_is_full(k, l)
                       THEN SeqToSet(l) \
                              {get_furthest_counter_clockwise_neighbor(k, l)}
                       ELSE SeqToSet(l)
                 /\ Len(jn'[p].rleaf) =
                       IF LeafSet_is_full(k, l) THEN Len(l) - 1 ELSE Len(l)
                 /\ leaf' = leaf
                 /\ table' = table]_vars

\* a join was answered by a node whose leaf set is full
C27_Witness ==
    \E p \in DOMAIN jn :
        /\ jn[p].pc = "resp"
        /\ LeafSet_is_full(k, leaf[jn[p].term])
        /\ Len(jn[p].rleaf) = 2 * k
        /\ get_furthest_counter_clockwise_neighbor(k, leaf[jn[p].term])
              \notin SeqToSet(jn[p].rleaf)

(***************************************************************************)
(* announce_arrival_service: what the recipient takes in                   *)
(***************************************************************************)

TableHolds(t, x) ==
    \E i \in 1 .. Len(t) : \E c \in 0 .. (HEX_BASE - 1) : t[i][c] = x

\* id has an owner in leaf set l: l is not full, or id lies on the arc from
\* the first to the last entry
HasOwner(l, id) ==
    \/ ~LeafSet_is_full(k, l)
    \/ clockwise_distance(l[1], id) <= clockwise_distance(l[1], l[Len(l)])

\* C28: the recipient of AnnounceArrival(p) always inserts p into its
\* routing table; it inserts p into its leaf set exactly when p has an
\* owner in the leaf set and is not an entry yet, and leaves the leaf set
\* as it is otherwise.
C28_AnnounceTakesIn ==
    [][\A p \in DOMAIN jn :
          (jn[p].pc = "annwait" /\ jn'[p].pc # "annwait") =>
             LET r == Head(jn[p].ann)
                 l == leaf[r]
             IN  /\ TableHolds(table'[r], p)
                 /\ jn'[p].pc = "ann"
                 /\ IF HasOwner(l, p) /\ p \notin SeqToSet(l)
                    THEN /\ p \in SeqToSet(leaf'[r])
                         /\ SeqToSet(leaf'[r]) \ {p} \subseteq SeqToSet(l)
                    ELSE leaf'[r] = l]_vars

\* an announced node has taken p into a full leaf set, another one into its
\* routing table only
C28_Witness ==
    \E p \in DOMAIN jn : \E r1, r2 \in net \ {p} :
        /\ jn[p].pc \in {"ann", "done"}
        /\ r1 \notin SeqToSet(jn[p].ann)
        /\ r2 \notin SeqToSet(jn[p].ann)
        /\ LeafSet_is_full(k, leaf[r1])
        /\ p \in SeqToSet(leaf[r1])
        /\ TableHolds(table[r1], p)
        /\ p \notin SeqToSet(leaf[r2])
        /\ TableHolds(table[r2], p)

(***************************************************************************)
(* Two joins that overlap                                                  *)
(***************************************************************************)

\* every peer is up, no join is under way or to come, and at least two
\* peers have joined through the network
JoinsComplete ==
    /\ \A n \in net : up[n] /\ jn[n].pc \in {"off", "done"}
    /\ budget.launch = << >>
    /\ Cardinality({ p \in net : jn[p].pc = "done" }) >= 2

\* C29: once the joins of two peers next to each other, each answered
\* before the other announced itself, and their announcements are complete,
\* every leaf set, the newcomers' included, holds the k nearest peers on
\* each side of its owner, and every stored key is in the store of the peer
\* that answers the queries for it.
C29_ConcurrentJoinsConverge ==
    JoinsComplete =>
        /\ \A n \in net : SeqToSet(leaf[n]) = ExpectedLeaf(net, n)
        /\ \A key \in keys, n \in net :
              store[n][key] # NoValue => n = find_responsible(net, key)

(***************************************************************************)
(* A node that crashes while a query it serves is under way.  The query    *)
(* was executed and its response is on the way back when a node of the     *)
(* chain of handlers fails: the handler before it gets the error of        *)
(* connect_and_query and goes on as query_with_leaf_set,                   *)
(* query_with_routing_table and query_with_closest_from_leaf_set do after  *)
(* a failed forward.                                                       *)
(***************************************************************************)

\* the nodes whose handlers hold the request, in the order of the forwards
Chain(tok) == [i \in 1 .. Len(tok.path) |-> tok.path[i].node] \o << tok.at >>

CrashForwarder ==
    /\ budget.kills > 0
    /\ q.pc = "done"
    /\ \E i \in 2 .. Len(Chain(q)) :
          LET b == Chain(q)[i]
              a == q.path[i - 1]
              back == [q EXCEPT !.at = a.node, !.hops = a.hops,
                                !.matched = get_num_matched_digits(a.node, q.key),
                                !.path = SubSeq(@, 1, i - 2),
                                !.fwd = i - 2,
                                !.from_id = None, !.rvalue = NoValue,
                                !.error = NoError]
          IN  /\ up[b]
              /\ \A j \in 1 .. (i - 1) : Chain(q)[j] # b
              /\ up' = [up EXCEPT ![b] = FALSE]
              /\ budget' = [budget EXCEPT !.kills = @ - 1]
              /\ IF a.via = "table"
                 THEN /\ q' = [back EXCEPT !.pc = "closest"]
                      /\ tfix' = { task \in tfix : task[1] # b }
                                   \cup { << a.node, b, FALSE >> }
                 ELSE /\ q' = [back EXCEPT !.pc = "fix", !.fx = b,
                                           !.ret = a.via]
                      /\ tfix' = { task \in tfix : task[1] # b }
    /\ UNCHANGED uvars
    /\ UNCHANGED << k, net, keys, name, leaf, table, store, wlock, rlock, jn,
                    written >>

CrashScenarios ==
    { [k |-> 1, ids |-> {256, 272, 288, 304, 1280}, keys |-> {277},
       ops |-> FailOps - 1, kills |-> FailKills],
      [k |-> 2, ids |-> {100, 200, 300, 400, 500, 600, 700}, keys |-> {400},
       ops |-> FailOps - 1, kills |-> FailKills] }

InitCrash == UnitsIdle /\ \E sc \in CrashScenarios : StableInit(sc)

NextCrash ==
    \/ ClientQuery
    \/ QueryRecv
    \/ QueryLeaf
    \/ QueryTable
    \/ QueryClosest
    \/ QueryReturn
    \/ FailKill
    \/ CrashForwarder
    \/ \E h \in Handles : FixStart(h)
    \/ \E h \in Handles : FixApply(h)
    \/ \E h \in Handles : Fanout(h)
    \/ \E h \in Handles : FanoutFix(h)
    \/ TableFixStart
    \/ TableFixApply

SpecCrash == InitCrash /\ [][NextCrash]_vars

\* C30: a client's Set or Delete is applied to a store at most once, and by
\* at most one peer, also when nodes crash: a forwarder that tries again
\* after a failed forward never causes a second execution.
C30_ExecutedAtMostOnce ==
    q.qtype \in {Set, Delete} =>
        Cardinality({ i \in 1 .. Len(q.execs) : q.execs[i].error = NoError }) <= 1

(***************************************************************************)
(* Fallback phase: the closest leaf entry is never the handler itself.     *)
(***************************************************************************)

\* the handler of token tok for key has found no owner in its leaf set, has
\* been through the routing table and is about to call
\* get_closest_from_leaf_set
InFallback(tok) == tok.pc = "closest"

\* C31: whenever a query or a join has reached the fallback phase of a peer
\* (the leaf-set owner lookup did not name the peer), the closest leaf entry
\* to the key is a peer other than that peer, so the request is never
\* forwarded to the peer that is handling it.
C31_FallbackNotSelf ==
    /\ InFallback(q) => get_closest_from_leaf_set(q.at, q.key) # q.at
    /\ \A p \in DOMAIN jn :
          InFallback(jn[p]) => get_closest_from_leaf_set(jn[p].at, p) # jn[p].at

(***************************************************************************)
(* RoutingTable::route and RoutingTable::remove of pastry/table.rs, over   *)
(* the tables of SpecTable.                                                *)
(***************************************************************************)

\* the ids a table holds
TableIds(t) == { cell[3] : cell \in OccupiedCells(t) }

\* C32: route(key, m), with r the greater of m and the prefix length shared
\* by the owner and key, returns None when r is not the index of a
\* materialized row (an empty table included); otherwise the entry of cell
\* (r, digit r of key) with matched = r if the cell is occupied, else the
\* entry of row r nearest to the owner on the ring, or None for an empty row.
C32_RouteResult ==
    t_last.op = "route" =>
        t_last.res = Table_route(t_id, t_last.before, t_last.key, t_last.m)

\* C33: every entry route(key, m) returns shares with key at least as many
\* leading hex digits as the owner of the table shares with key.
C33_RoutePrefix ==
    (t_last.op = "route" /\ t_last.res.kind = "some") =>
        SharedPrefix(t_last.res.node, t_last.key) >= SharedPrefix(t_id, t_last.key)

\* C34: remove(id) of an id the table does not hold leaves the table as it
\* was, also when another id sits in the cell id maps to.
C34_RemoveOnlyHolder ==
    (t_last.op = "remove" /\ t_last.key \notin TableIds(t_last.before)) =>
        t_table = t_last.before

(***************************************************************************)
(* The functions of hring/ring.rs and util.rs on their own: the arguments  *)
(* are drawn at the start, a call keeps its answer in f_call.              *)
(***************************************************************************)

\* the ids the calls are made with: the values of the tests of ring.rs,
\* both ends of the id space, and ids with common hex prefixes
FnIds == {0, 1, 100, 150, 200, 256, 257, 272, MaxId - 100, MaxId}

InitFn ==
    /\ OverlayIdle
    /\ TableIdle /\ GateIdle /\ TransferIdle /\ RetryIdle /\ SetIdle
    /\ f_call \in [fn : {"none"}, a : FnIds, b : FnIds, x : FnIds, res : {0}]

\* Ring64::distance(a, b)
CallDistance ==
    /\ f_call' = [f_call EXCEPT !.fn = "distance",
                                !.res = distance(f_call.a, f_call.b)]
    /\ UNCHANGED << ovars, tvars, gvars, xvars, rvars, svars >>

\* Ring64::is_in_range(a, b, x)
CallIsInRange ==
    /\ f_call' = [f_call EXCEPT !.fn = "is_in_range",
                                !.res = is_in_range(f_call.a, f_call.b, f_call.x)]
    /\ UNCHANGED << ovars, tvars, gvars, xvars, rvars, svars >>

\* util::get_num_matched_digits(a, b)
CallMatchedDigits ==
    /\ f_call' = [f_call EXCEPT !.fn = "get_num_matched_digits",
                                !.res = get_num_matched_digits(f_call.a, f_call.b)]
    /\ UNCHANGED << ovars, tvars, gvars, xvars, rvars, svars >>

NextFn == CallDistance \/ CallIsInRange \/ CallMatchedDigits

SpecFn == InitFn /\ [][NextFn]_vars

\* C35: distance(a, b) is the smaller of (b - a) and (a - b) taken modulo
\* the size of the id space; distance(a, a) is 0 and the distance between
\* the two ends of the id space, 0 and u64::MAX, is 1.
C35_RingDistance ==
    f_call.fn = "distance" =>
        /\ f_call.res = NatMin(clockwise_distance(f_call.a, f_call.b),
                               clockwise_distance(f_call.b, f_call.a))
        /\ (f_call.a = f_call.b => f_call.res = 0)
        /\ (f_call.a = 0 /\ f_call.b = MaxId => f_call.res = 1)

\* value is reached from from, going clockwise, before to is: the arc that
\* starts with from and ends just before to
InArcFrom(from, to, value) ==
    clockwise_distance(from, value) < clockwise_distance(from, to)

\* value is reached from from, going clockwise, after from and not after to:
\* the arc that starts just after from and ends with to
InArcTo(from, to, value) ==
    /\ 0 < clockwise_distance(from, value)
    /\ clockwise_distance(from, value) <= clockwise_distance(from, to)

C37_ArcsPartition ==
    (f_call.fn = "is_in_range" /\ f_call.a # f_call.b) =>
        (f_call.res <=> ~is_in_range(f_call.b, f_call.a, f_call.x))

\* C37 witness: x is outside a range that does not pass 0
C37_Witness ==
    /\ f_call.fn = "is_in_range"
    /\ f_call.a < f_call.b
    /\ f_call.x > f_call.b
    /\ f_call.res = FALSE

\* C38: get_num_matched_digits(a, b) is the length of the longest common
\* prefix of the hex digits of a and b: the index of the first digit that
\* differs, and the number of digits of an id when a = b.
C38_MatchedDigits ==
    f_call.fn = "get_num_matched_digits" =>
        f_call.res = SharedPrefix(f_call.a, f_call.b)

(***************************************************************************)
(* pastry/leaf.rs: LeafSet as a CenteredRangeSet, a Vec of size slots with *)
(* the key it was created with in slot size / 2.  Slot i of the Vec is     *)
(* position i + 1 of the sequence; a slot holds a key or None (the value   *)
(* stored with a key is the key, as in the tests of leaf.rs).              *)
(***************************************************************************)

\* LeafSet::new
CenteredRangeSet_new(size, center_key) ==
    [i \in 1 .. size |-> IF i = (size \div 2) + 1 THEN center_key ELSE None]

\* the while loop of find_replace from (l, r): the slot at which the loop
\* returns, or the l it ends with
RECURSIVE FindReplaceLoop(_, _, _, _, _)
FindReplaceLoop(set, size, key, l, r) ==
    IF ~(l < r) THEN [found |-> FALSE, l |-> l]
    ELSE LET m == ((r - l) \div 2) + l
         IN  IF set[m + 1] # None
             THEN IF set[m + 1] < key
                  THEN FindReplaceLoop(set, size, key, m + 1, r)
                  ELSE IF set[m + 1] > key
                       THEN IF m = 0 THEN [found |-> FALSE, l |-> l]
                            ELSE FindReplaceLoop(set, size, key, l, m - 1)
                       ELSE [found |-> TRUE, l |-> m]
             ELSE IF m > size \div 2
                  THEN FindReplaceLoop(set, size, key, l, m - 1)
                  ELSE FindReplaceLoop(set, size, key, m + 1, r)

\* LeafSet::find_replace
LeafSet_find_replace(set, size, key) ==
    LET res == FindReplaceLoop(set, size, key, 0, size - 1)
        l   == res.l
    IN  IF res.found THEN l
        ELSE IF set[l + 1] # None /\ l > 0 /\ l < size \div 2 /\ set[l + 1] > key
             THEN l - 1
             ELSE l

\* the while loop of find_responsible from (l, r): the r it ends with
RECURSIVE FindResponsibleLoop(_, _, _, _, _)
FindResponsibleLoop(set, size, key, l, r) ==
    IF ~(l <= r) THEN r
    ELSE LET m == ((r - l) \div 2) + l
         IN  IF set[m + 1] # None
             THEN IF set[m + 1] < key
                  THEN FindResponsibleLoop(set, size, key, m + 1, r)
                  ELSE IF set[m + 1] > key
                       THEN IF m = 0 THEN r
                            ELSE FindResponsibleLoop(set, size, key, l, m - 1)
                       ELSE m
             ELSE IF m > size \div 2
                  THEN FindResponsibleLoop(set, size, key, l, m - 1)
                  ELSE FindResponsibleLoop(set, size, key, m + 1, r)

\* LeafSet::find_responsible: the slot, or None
LeafSet_find_responsible(set, size, key) ==
    LET r == FindResponsibleLoop(set, size, key, 0, size - 1)
    IN  IF r = size - 1 \/ set[r + 1] = None \/ set[r + 1] > key THEN None
        ELSE r

\* LeafSet::insert: an occupied slot that is not at an edge is pushed, with
\* the slots beyond it, one place towards the edge of its side (slots up to
\* the centre to the left), the outermost entry is dropped; then the key is
\* written into the slot
CenteredRangeSet_insert(set, size, key) ==
    LET idx == LeafSet_find_replace(set, size, key)
    IN  IF set[idx + 1] # None /\ idx < size - 1 /\ idx > 0
        THEN IF idx > size \div 2
             THEN [i \in 1 .. size |->
                     IF i - 1 = idx THEN key
                     ELSE IF i - 1 > idx THEN set[i - 1]
                     ELSE set[i]]
             ELSE [i \in 1 .. size |->
                     IF i - 1 = idx THEN key
                     ELSE IF i - 1 < idx THEN set[i + 1]
                     ELSE set[i]]
        ELSE [set EXCEPT ![idx + 1] = key]

\* LeafSet::remove: [ok, set]; the slots beyond the removed one move one
\* place towards the centre
CenteredRangeSet_remove(set, size, key) ==
    LET idx == LeafSet_find_replace(set, size, key)
    IN  IF idx = size \div 2 THEN [ok |-> FALSE, set |-> set]
        ELSE IF set[idx + 1] = None \/ set[idx + 1] # key
             THEN [ok |-> FALSE, set |-> set]
        ELSE IF idx > size \div 2
             THEN [ok |-> TRUE,
                   set |-> [i \in 1 .. size |->
                              IF i - 1 < idx THEN set[i]
                              ELSE IF i - 1 < size - 1 THEN set[i + 1]
                              ELSE None]]
             ELSE [ok |-> TRUE,
                   set |-> [i \in 1 .. size |->
                              IF i - 1 > idx THEN set[i]
                              ELSE IF i - 1 > 0 THEN set[i - 1]
                              ELSE None]]

\* LeafSet::get: the value of the slot find_responsible names, or None
CenteredRangeSet_get(set, size, key) ==
    LET idx == LeafSet_find_responsible(set, size, key)
    IN  IF idx = None THEN None ELSE set[idx + 1]

\* the sizes, the centre keys and the keys of the calls: the keys of the
\* tests of leaf.rs and keys between them
SetSizes == {3, 5, 7}
SetCenters == {100}
SetKeys == {0, 50, 75, 100, 125, 150, 200, 250}

InitSet ==
    /\ OverlayIdle
    /\ TableIdle /\ GateIdle /\ TransferIdle /\ RetryIdle /\ FnIdle
    /\ s_size \in SetSizes
    /\ s_center \in SetCenters
    /\ s_set = CenteredRangeSet_new(s_size, s_center)
    /\ s_last = [op |-> "none", key |-> 0, before |-> << >>, ok |-> TRUE,
                 res |-> None]

SInsert ==
    \E key \in SetKeys :
        /\ s_set' = CenteredRangeSet_insert(s_set, s_size, key)
        /\ s_last' = [op |-> "insert", key |-> key, before |-> s_set,
                      ok |-> TRUE, res |-> None]
        /\ UNCHANGED << s_size, s_center, ovars, tvars, gvars, xvars, rvars, fvars >>

SRemove ==
    \E key \in SetKeys :
        LET r == CenteredRangeSet_remove(s_set, s_size, key)
        IN  /\ s_set' = r.set
            /\ s_last' = [op |-> "remove", key |-> key, before |-> s_set,
                          ok |-> r.ok, res |-> None]
            /\ UNCHANGED << s_size, s_center, ovars, tvars, gvars, xvars, rvars, fvars >>

SGet ==
    \E key \in SetKeys :
        /\ s_last' = [op |-> "get", key |-> key, before |-> s_set, ok |-> TRUE,
                      res |-> CenteredRangeSet_get(s_set, s_size, key)]
        /\ UNCHANGED << s_size, s_center, s_set, ovars, tvars, gvars, xvars, rvars, fvars >>

NextSet == SInsert \/ SRemove \/ SGet

SpecSet == InitSet /\ [][NextSet]_vars

\* the occupied slots of a set, from left to right
Occupied(set) == SelectSeq(set, LAMBDA e : e # None)

\* C39: after any sequence of insert and remove calls on a set of odd size
\* >= 3 the keys of the occupied slots are strictly ascending from left to
\* right (sorted, no key twice) and the centre slot holds the key the set
\* was created with, also after the insert of a key that is present or is
\* the centre key.
C39_SortedAroundCentre ==
    /\ \A i, j \in 1 .. Len(Occupied(s_set)) :
          i < j => Occupied(s_set)[i] < Occupied(s_set)[j]
    /\ s_set[(s_size \div 2) + 1] = s_center

\* the slots of set whose key is not above key
SlotsUpTo(set, key) == { i \in 1 .. Len(set) : set[i] # None /\ set[i] <= key }

\* C40: get(key) returns the value of the occupied entry with the greatest
\* key <= key, for every set built by insert and remove; it returns None
\* when key is below every stored key and when that entry is in the last
\* slot, which is responsible for no key.
C40_GetGreatestBelow ==
    s_last.op = "get" =>
        IF SlotsUpTo(s_last.before, s_last.key) = {} THEN s_last.res = None
        ELSE \E i \in SlotsUpTo(s_last.before, s_last.key) :
                /\ \A j \in SlotsUpTo(s_last.before, s_last.key) :
                      s_last.before[j] <= s_last.before[i]
                /\ s_last.res = IF i = s_size THEN None ELSE s_last.before[i]

====
